---- MODULE Spec2Model ----
(***************************************************************************)
(* Link manager: the links table of db.js and the request handlers of the  *)
(* express server (src/unnamed/part_001).                                  *)
(*                                                                         *)
(* One link row is modelled.  The requests in flight form a bag of handler *)
(* records (position and closure variables); handlers interleave at their  *)
(* suspension points, the store and network callbacks of node's event      *)
(* loop, and every action runs one callback to its next suspension.  A     *)
(* closure keeps only the fields of the loaded link that the rest of the   *)
(* handler still reads.  Time is counted in hours from the instant the     *)
(* link id is generated.                                                   *)
(***************************************************************************)
EXTENDS Integers, FiniteSets, Sequences, Bags, TLC

\* ------------------------------------------------------------------ bounds
MaxReqs    == 2    \* requests that can be in flight together
MaxTime    == 2    \* the clock runs from 0 to MaxTime hours
MaxCap     == 2    \* largest maxDownloads a client sends
MaxHours   == 1    \* largest expirationHours a client sends
MaxScripts == 2    \* script blocks of a landing page
MaxUsers   == 2    \* rows the users table is given in all

\* admissions counted before the model stops loading links for download
MaxAdmit == MaxCap + 1

\* SQL NULL / JS null: outside the naturals used for every other column
NULL == -1

\* JS truthiness of a nullable integer column (null and 0 are falsy)
Truthy(x) == x # NULL /\ x # 0

\* `x || null` of the create handler and of createLink's parameter list
OrNull(x) == IF Truthy(x) THEN x ELSE NULL

\* the id that uuidv4() hands out for the modelled link
LinkId == "id1"

\* the absent row (db.get yields undefined)
NoRow == [absent |-> TRUE]

VARIABLES
    linkRow,    \* the row of the links table for the modelled id, or NoRow
    uuidUsed,   \* the modelled id has been handed out by uuidv4()
    now,        \* new Date(), in hours
    req,        \* bag of the requests in flight
    admitted,   \* history: download requests admitted since creation/reset
    overlap,    \* history: a download was admitted while another admitted
                \*          request's increment was still pending
    edited,     \* history: an update has written the maxDownloads column
    users,      \* the users table: its rows in the order of their ids
    sessions,   \* the server's session map: session id -> user id
    sessionId   \* the X-Session-ID header the client sends ("" for none)

\* the variables of the user and session routes
authVars == <<users, sessions, sessionId>>

vars == <<linkRow, uuidUsed, now, req, admitted, overlap, edited, users, sessions, sessionId>>

\* ------------------------------------------------------------------ store
\* getLink's conversion of the sqlite row to the JS object the handlers see
getLink(row) ==
    IF row = NoRow THEN NoRow
    ELSE [row EXCEPT !.isActive = (row.isActive = 1),
                     !.isValid  = (row.isValid = 1)]

\* variant: the increment adds two
incrementDownloadCountTwice(row) ==
    IF row = NoRow THEN NoRow
    ELSE [row EXCEPT !.currentDownloads = @ + 2]

\* UPDATE links SET currentDownloads = currentDownloads + 1 WHERE id = ?
incrementDownloadCount(row) ==
    IF row = NoRow THEN NoRow
    ELSE [row EXCEPT !.currentDownloads = @ + 1]

\* variant: the deactivation also marks the link invalid
deactivateLinkInvalidates(row) ==
    IF row = NoRow THEN NoRow
    ELSE [row EXCEPT !.isActive = 0, !.isValid = 0]

\* UPDATE links SET isActive = 0 WHERE id = ?
deactivateLink(row) ==
    IF row = NoRow THEN NoRow
    ELSE [row EXCEPT !.isActive = 0]

\* createLink's INSERT, with its parameter conversions
createLink(link) ==
    [ id               |-> link.id,
      title            |-> link.title,
      originalUrl      |-> link.originalUrl,
      maxDownloads     |-> OrNull(link.maxDownloads),
      currentDownloads |-> IF Truthy(link.currentDownloads)
                           THEN link.currentDownloads ELSE 0,
      expirationHours  |-> OrNull(link.expirationHours),
      createdAt        |-> link.createdAt,
      expiresAt        |-> link.expiresAt,
      isActive         |-> IF link.isActive THEN 1 ELSE 0,
      isValid          |-> 1,
      lastChecked      |-> NULL,
      statusCode       |-> NULL,
      error            |-> "" ]

\* variant: the id is written like every other key
updateLinkWritesId(row, updates) ==
    IF row = NoRow \/ DOMAIN updates = {} THEN row
    ELSE [k \in DOMAIN row |->
            IF k \in DOMAIN updates THEN updates[k] ELSE row[k]]

\* the row after updateLink's UPDATE ... SET <every key but id> WHERE id = ?
updateLink(row, updates) ==
    IF row = NoRow \/ DOMAIN updates \ {"id"} = {} THEN row
    ELSE [k \in DOMAIN row |->
            IF k \in DOMAIN updates \ {"id"} THEN updates[k] ELSE row[k]]

\* this.changes of updateLink's statement (0 without a statement)
updateChanges(row, updates) ==
    IF DOMAIN updates \ {"id"} = {} THEN 0
    ELSE IF row = NoRow THEN 0 ELSE 1

\* DELETE FROM links WHERE id = ?
deleteLink(row) == NoRow

\* --------------------------------------------------------------- requests
NoUpdates == [k \in {} |-> NULL]

\* a response header that has not been set
NoHeader == [absent |-> TRUE]

New(kind, pc) ==
    [ kind |-> kind, pc |-> pc, bk |-> "none", link |-> NoRow,
      updates |-> NoUpdates, status |-> 0, error |-> "", up1 |-> 0,
      up2 |-> 0, fetches |-> 0, session |-> NULL, body |-> NoUpdates,
      contentType |-> "", contentDisposition |-> NoHeader, piped |-> "none",
      heads |-> 0, location |-> "", sends |-> 0, chain |-> "none" ]

One(s) == SetToBag({s})

InFlight == BagToSet(req)

\* a new request is accepted
Accept(s) ==
    /\ BagCardinality(req) < MaxReqs
    /\ req' = req (+) One(s)

\* a request is gone once its response is out and its bookkeeping settled
Step(s, t) ==
    req' = IF t.pc = "done" /\ t.bk = "none"
           THEN req (-) One(s)
           ELSE (req (-) One(s)) (+) One(t)

\* res.status(code).json({error: msg}), res.json(...), res.send(...),
\* res.redirect(...): the status line and the headers are written (heads
\* counts how often), then the body; sends counts the calls
Respond(s, code, msg) ==
    [s EXCEPT !.pc = "sent", !.status = code, !.error = msg, !.heads = @ + 1,
              !.sends = @ + 1]

\* res.json(...) or res.status(code).json(...) called on a response that has
\* been sent: the call throws and writes nothing
Thrown(s) == [s EXCEPT !.sends = @ + 1]

\* the rest of a handler's promise chain after a .then has answered 404 with
\* `return res.status(404).json(...)`: the returned res is the next .then's
\* argument, so res.json(res) is called and throws, and the .catch calls
\* res.status(500).json(...), which throws in turn
ChainAfterAnswer(s) == Thrown(Thrown(s))

\* res.headersSent
headersSent(s) == s.heads > 0

\* source.pipe(res): the response keeps its default status 200; nothing is
\* written before the source delivers its first chunk or ends
Pipe(s, source) ==
    [s EXCEPT !.pc = "sent", !.status = 200, !.error = "", !.piped = source]

\* the fields of the loaded link that the rest of a handler reads
Keep(link, fields) == [k \in fields |-> link[k]]

\* the response has gone out
Finish(s) ==
    /\ s.pc = "sent"
    /\ Step(s, [s EXCEPT !.pc = "done", !.link = NoRow, !.updates = NoUpdates,
                         !.status = 0, !.error = "", !.up1 = 0, !.up2 = 0,
                         !.fetches = 0, !.session = NULL, !.body = NoUpdates,
                         !.contentType = "", !.contentDisposition = NoHeader,
                         !.piped = "none", !.heads = 0, !.location = "",
                         !.sends = 0, !.chain = "none"])
    /\ UNCHANGED <<linkRow, uuidUsed, now, admitted, overlap, edited, authVars>>

\* ------------------------------------------------------------------ clock
Tick ==
    /\ uuidUsed
    /\ now < MaxTime
    /\ now' = now + 1
    /\ UNCHANGED <<linkRow, uuidUsed, req, admitted, overlap, edited, authVars>>

\* variant: an expirationHours of 0 gives the link an expiry too
CreateStartZeroHours(originalUrl, maxDownloads, expirationHours) ==
    /\ IF originalUrl = ""
       THEN /\ Accept(Respond(New("create", "start"), 400, "Original URL is required"))
            /\ UNCHANGED uuidUsed
       ELSE /\ ~uuidUsed
            /\ uuidUsed' = TRUE
            /\ Accept([New("create", "createLink") EXCEPT
                  !.link = [ id               |-> LinkId,
                             title            |-> "",   \* title || null
                             originalUrl      |-> originalUrl,
                             maxDownloads     |-> OrNull(maxDownloads),
                             currentDownloads |-> 0,
                             expirationHours  |-> OrNull(expirationHours),
                             createdAt        |-> now,
                             expiresAt        |-> IF expirationHours # NULL
                                                  THEN now + expirationHours
                                                  ELSE NULL,
                             isActive         |-> TRUE ]])
    /\ UNCHANGED <<linkRow, now, admitted, overlap, edited, authVars>>

\* ------------------------------------------------- POST /api/links (create)
\* validation, id generation and the link object; db.createLink is issued
CreateStart(originalUrl, maxDownloads, expirationHours) ==
    /\ IF originalUrl = ""
       THEN /\ Accept(Respond(New("create", "start"), 400, "Original URL is required"))
            /\ UNCHANGED uuidUsed
       ELSE /\ ~uuidUsed
            /\ uuidUsed' = TRUE
            /\ Accept([New("create", "createLink") EXCEPT
                  !.link = [ id               |-> LinkId,
                             title            |-> "",   \* title || null
                             originalUrl      |-> originalUrl,
                             maxDownloads     |-> OrNull(maxDownloads),
                             currentDownloads |-> 0,
                             expirationHours  |-> OrNull(expirationHours),
                             createdAt        |-> now,
                             expiresAt        |-> IF Truthy(expirationHours)
                                                  THEN now + expirationHours
                                                  ELSE NULL,
                             isActive         |-> TRUE ]])
    /\ UNCHANGED <<linkRow, now, admitted, overlap, edited, authVars>>

\* the INSERT settles
CreateInsert(s, ok) ==
    /\ s.kind = "create" /\ s.pc = "createLink"
    /\ IF ok
       THEN /\ linkRow' = createLink(s.link)
            /\ Step(s, Respond([s EXCEPT !.link = NoRow], 200, ""))
       ELSE /\ Step(s, Respond([s EXCEPT !.link = NoRow], 500, "Failed to create link"))
            /\ UNCHANGED linkRow
    /\ UNCHANGED <<uuidUsed, now, admitted, overlap, edited, authVars>>

\* ------------------------------------------------------ GET /download/:id
\* new URL(link.originalUrl) throws on a string that is not an absolute URL
UrlParses(u) == u \in {"http://files.example/f.zip", "http://files.example/",
                       "https://u.pcloud.link/p"}

\* the fallback filename: pathname.split('/').pop() || 'download'
UrlFilename(u) ==
    CASE u = "http://files.example/f.zip" -> <<"f.zip">>
      [] u = "https://u.pcloud.link/p"    -> <<"p">>
      [] OTHER                            -> <<"download">>

\* `attachment; filename="${filename}"`, the filename as the sequence of the
\* strings it is put together from
Attachment(filename) == [attachment |-> filename]

\* the filename the handler's pattern finds in an upstream Content-Disposition
\* header, quotes removed; "" when the pattern does not match or matches
\* nothing
ParsedFilename(contentDisposition) ==
    CASE contentDisposition = "attachment; filename=\"report.pdf\"" -> "report.pdf"
      [] contentDisposition = "attachment; filename=plain.bin"      -> "plain.bin"
      [] OTHER                                                      -> ""

DownloadStart ==
    /\ Accept(New("download", "getLink"))
    /\ UNCHANGED <<linkRow, uuidUsed, now, admitted, overlap, edited, authVars>>

\* variant: the limit test with > for >=
LimitReachedOffByOne(link) ==
    Truthy(link.maxDownloads) /\ link.currentDownloads > link.maxDownloads

\* variant: the limit test without its `link.maxDownloads &&` guard
LimitReachedNoGuard(link) ==
    link.currentDownloads >= link.maxDownloads

\* link.maxDownloads && link.currentDownloads >= link.maxDownloads
LimitReached(link) ==
    Truthy(link.maxDownloads) /\ link.currentDownloads >= link.maxDownloads

\* variant: the limit check placed before the expiry check
LifecycleLimitFirst(link, t) ==
    IF link = NoRow THEN "NOT_FOUND"
    ELSE IF ~link.isActive THEN "INACTIVE"
    ELSE IF LimitReached(link) THEN "LIMIT_REACHED"
    ELSE IF link.expiresAt # NULL /\ t > link.expiresAt THEN "EXPIRED"
    ELSE "ADMIT"

\* variant: no limit check
LifecycleNoLimit(link, t) ==
    IF link = NoRow THEN "NOT_FOUND"
    ELSE IF ~link.isActive THEN "INACTIVE"
    ELSE IF link.expiresAt # NULL /\ t > link.expiresAt THEN "EXPIRED"
    ELSE "ADMIT"

\* variant: no isActive check
LifecycleNoActive(link, t) ==
    IF link = NoRow THEN "NOT_FOUND"
    ELSE IF link.expiresAt # NULL /\ t > link.expiresAt THEN "EXPIRED"
    ELSE IF LimitReached(link) THEN "LIMIT_REACHED"
    ELSE "ADMIT"

\* variant: no expiry check
LifecycleNoExpiry(link, t) ==
    IF link = NoRow THEN "NOT_FOUND"
    ELSE IF ~link.isActive THEN "INACTIVE"
    ELSE IF LimitReached(link) THEN "LIMIT_REACHED"
    ELSE "ADMIT"

\* variant: the expiry check placed before the isActive check
LifecycleExpiryFirst(link, t) ==
    IF link = NoRow THEN "NOT_FOUND"
    ELSE IF link.expiresAt # NULL /\ t > link.expiresAt THEN "EXPIRED"
    ELSE IF ~link.isActive THEN "INACTIVE"
    ELSE IF LimitReached(link) THEN "LIMIT_REACHED"
    ELSE "ADMIT"

\* variant: the limit check also counts an increment that another request
\* has fired and that has not settled
LifecycleReserving(link, t) ==
    IF link = NoRow THEN "NOT_FOUND"
    ELSE IF ~link.isActive THEN "INACTIVE"
    ELSE IF link.expiresAt # NULL /\ t > link.expiresAt THEN "EXPIRED"
    ELSE IF LimitReached(link) THEN "LIMIT_REACHED"
    ELSE IF /\ Truthy(link.maxDownloads)
            /\ link.currentDownloads + 1 >= link.maxDownloads
            /\ \E q \in InFlight : q.bk \in {"inc", "incThenDeact"}
         THEN "LIMIT_REACHED"
    ELSE "ADMIT"

\* the first lifecycle check that fails, in the handler's order
Lifecycle(link, t) ==
    IF link = NoRow THEN "NOT_FOUND"
    ELSE IF ~link.isActive THEN "INACTIVE"
    ELSE IF link.expiresAt # NULL /\ t > link.expiresAt THEN "EXPIRED"
    ELSE IF LimitReached(link) THEN "LIMIT_REACHED"
    ELSE "ADMIT"

\* the test of incrementDownloadCount's .then, on the link loaded before
ReachesCap(link) ==
    Truthy(link.maxDownloads) /\ link.currentDownloads + 1 >= link.maxDownloads

\* db.getLink resolves and the .then callback runs to its next suspension:
\* the lifecycle checks, the increment fired off, the fallback filename, and
\* the first upstream GET
DownloadGetLink(s) ==
    /\ s.kind = "download" /\ s.pc = "getLink"
    /\ admitted < MaxAdmit
    /\ LET link == getLink(linkRow)
           lc   == Lifecycle(link, now)
           a    == [s EXCEPT !.bk = IF ReachesCap(link) THEN "incThenDeact" ELSE "inc",
                             !.link = Keep(link, {"originalUrl"})]
       IN  /\ Step(s,
                CASE lc = "NOT_FOUND"     -> Respond(s, 404, "Link not found")
                  [] lc = "INACTIVE"      -> Respond(s, 400, "This link is no longer active")
                  [] lc = "EXPIRED"       -> [s EXCEPT !.pc = "deactExpired"]
                  [] lc = "LIMIT_REACHED" -> [s EXCEPT !.pc = "deactLimit"]
                  [] OTHER ->
                       IF UrlParses(link.originalUrl)
                       THEN [a EXCEPT !.pc = "fetch1", !.fetches = 1,
                                      !.contentType = "application/octet-stream"]
                       ELSE Respond(a, 500, "Failed to fetch link"))
           /\ admitted' = IF lc = "ADMIT" THEN admitted + 1 ELSE admitted
           /\ overlap' = (overlap \/ (lc = "ADMIT" /\ \E q \in InFlight :
                                         q.bk \in {"inc", "incThenDeact"}))
    /\ UNCHANGED <<linkRow, uuidUsed, now, edited, authVars>>

\* db.getLink rejects: the outer .catch
DownloadGetLinkFail(s) ==
    /\ s.kind = "download" /\ s.pc = "getLink"
    /\ Step(s, Respond(s, 500, "Failed to fetch link"))
    /\ UNCHANGED <<linkRow, uuidUsed, now, admitted, overlap, edited, authVars>>

\* the deactivation of the expired branch settles; both callbacks answer 400
DownloadDeactExpired(s, ok) ==
    /\ s.kind = "download" /\ s.pc = "deactExpired"
    /\ linkRow' = IF ok THEN deactivateLink(linkRow) ELSE linkRow
    /\ Step(s, Respond(s, 400, "This link has expired"))
    /\ UNCHANGED <<uuidUsed, now, admitted, overlap, edited, authVars>>

\* variant: a failed deactivation of the limit branch answers 500
DownloadDeactLimitFailing(s, ok) ==
    /\ s.kind = "download" /\ s.pc = "deactLimit"
    /\ linkRow' = IF ok THEN deactivateLink(linkRow) ELSE linkRow
    /\ Step(s, IF ok THEN Respond(s, 400, "Download limit reached")
                     ELSE Respond(s, 500, "Failed to fetch link"))
    /\ UNCHANGED <<uuidUsed, now, admitted, overlap, edited, authVars>>

\* the deactivation of the limit branch settles
DownloadDeactLimit(s, ok) ==
    /\ s.kind = "download" /\ s.pc = "deactLimit"
    /\ linkRow' = IF ok THEN deactivateLink(linkRow) ELSE linkRow
    /\ Step(s, Respond(s, 400, "Download limit reached"))
    /\ UNCHANGED <<uuidUsed, now, admitted, overlap, edited, authVars>>

\* variant: a rejected increment answers the request with a 500
BkIncrementAnswers(s, ok) ==
    /\ s.bk \in {"inc", "incThenDeact"}
    /\ linkRow' = IF ok THEN incrementDownloadCount(linkRow) ELSE linkRow
    /\ Step(s, IF ok THEN [s EXCEPT !.bk = IF s.bk = "incThenDeact" THEN "deact" ELSE "none"]
               ELSE Respond([s EXCEPT !.bk = "none"], 500, "Failed to fetch link"))
    /\ UNCHANGED <<uuidUsed, now, admitted, overlap, edited, authVars>>

\* incrementDownloadCount settles; on success its .then may deactivate, a
\* rejection goes to the .catch that only logs
BkIncrement(s, ok) ==
    /\ s.bk \in {"inc", "incThenDeact"}
    /\ linkRow' = IF ok THEN incrementDownloadCount(linkRow) ELSE linkRow
    /\ Step(s, [s EXCEPT !.bk = IF ok /\ s.bk = "incThenDeact"
                                 THEN "deact" ELSE "none"])
    /\ UNCHANGED <<uuidUsed, now, admitted, overlap, edited, authVars>>

\* the follow-up deactivateLink settles; a failure is only logged
BkDeactivate(s, ok) ==
    /\ s.bk = "deact"
    /\ linkRow' = IF ok THEN deactivateLink(linkRow) ELSE linkRow
    /\ Step(s, [s EXCEPT !.bk = "none"])
    /\ UNCHANGED <<uuidUsed, now, admitted, overlap, edited, authVars>>

\* ----------------------------------------------- landing-page extraction
\* a script block, by what the extractor's three patterns find in it
Blocks ==
    { b \in [ publinkData : BOOLEAN, downloadlink : BOOLEAN,
              metadata : {"none", "json", "garbled"} ] :
        ~b.publinkData => b.metadata = "none" }

\* the documents handed to the extractor: their script blocks in order
Pages == UNION { [1..n -> Blocks] : n \in 0..MaxScripts }

IsPcloud(url) == url \in {"https://u.pcloud.link/p"}

NoInfo == [none |-> TRUE]

\* variant: a marker block without a downloadlink field is passed over
RECURSIVE ScanScriptsPassing(_, _)
ScanScriptsPassing(page, i) ==
    IF i > Len(page) THEN NoInfo
    ELSE IF page[i].publinkData /\ page[i].downloadlink
         THEN [ downloadLink |-> page[i].downloadlink,
                filename     |-> (page[i].metadata = "json") ]
         ELSE ScanScriptsPassing(page, i + 1)

\* variant: metadata that does not parse invalidates the block's result
RECURSIVE ScanScriptsStrict(_, _)
ScanScriptsStrict(page, i) ==
    IF i > Len(page) THEN NoInfo
    ELSE IF page[i].publinkData
         THEN IF page[i].metadata = "garbled" THEN NoInfo
              ELSE [ downloadLink |-> page[i].downloadlink,
                     filename     |-> (page[i].metadata = "json") ]
         ELSE ScanScriptsStrict(page, i + 1)

\* extractPcloudInfo's loop: the first block holding the marker decides
RECURSIVE ScanScripts(_, _)
ScanScripts(page, i) ==
    IF i > Len(page) THEN NoInfo
    ELSE IF page[i].publinkData
         THEN [ downloadLink |-> page[i].downloadlink,
                filename     |-> (page[i].metadata = "json") ]
         ELSE ScanScripts(page, i + 1)

extractPcloudInfo(page, originalUrl) ==
    IF IsPcloud(originalUrl) THEN ScanScripts(page, 1) ELSE NoInfo

\* the name in the metadata of a block whose metadata parses
MetadataName == "shared.bin"

\* ------------------------------------------------------- upstream fetches
\* variant: a response without Content-Type is taken for HTML
IsHtmlOrAbsent(ct) == ct \in {"", "text/html", "text/html; charset=utf-8"}

\* contentType && contentType.includes('text/html')   ("" = header absent)
IsHtml(ct) == ct # "" /\ ct \in {"text/html", "text/html; charset=utf-8"}

\* protocol.get(link.originalUrl) fails to connect
Fetch1Error(s) ==
    /\ s.kind = "download" /\ s.pc = "fetch1"
    /\ Step(s, Respond(s, 500, "Failed to fetch file"))
    /\ UNCHANGED <<linkRow, uuidUsed, now, admitted, overlap, edited, authVars>>

\* the first response arrives; its status code is not looked at.  An HTML
\* response is buffered, any other is piped to the client under the headers
\* taken from it (ct, cd: its Content-Type and Content-Disposition, "" for
\* an absent header)
Fetch1Response(s, st, ct, cd) ==
    /\ s.kind = "download" /\ s.pc = "fetch1"
    /\ LET filename == UrlFilename(s.link.originalUrl)
           t == [s EXCEPT
                   !.up1 = st,
                   !.contentType = IF ct # "" THEN ct ELSE @,
                   !.contentDisposition =
                       IF cd # ""
                       THEN IF ParsedFilename(cd) # ""
                            THEN Attachment(<<ParsedFilename(cd)>>)
                            ELSE @
                       ELSE Attachment(filename)]
       IN  Step(s, IF IsHtml(ct) THEN [s EXCEPT !.pc = "buffer", !.up1 = st]
                                 ELSE Pipe(t, "initialRes"))
    /\ UNCHANGED <<linkRow, uuidUsed, now, admitted, overlap, edited, authVars>>

\* variant: the second fetch is issued for every page with a marker block
Fetch1EndAnyMarker(s, page) ==
    /\ s.kind = "download" /\ s.pc = "buffer"
    /\ LET pcloudInfo == extractPcloudInfo(page, s.link.originalUrl)
           filename   == UrlFilename(s.link.originalUrl)
       IN  Step(s, IF pcloudInfo # NoInfo
                   THEN [s EXCEPT !.pc = "fetch2", !.fetches = 2,
                                  !.contentDisposition =
                                      Attachment(IF pcloudInfo.filename
                                                 THEN <<MetadataName>>
                                                 ELSE filename)]
                   ELSE Respond([s EXCEPT
                                   !.contentDisposition =
                                       Attachment(Append(filename, ".html")),
                                   !.contentType = "text/html",
                                   !.piped = "htmlContent"], 200, ""))
    /\ UNCHANGED <<linkRow, uuidUsed, now, admitted, overlap, edited, authVars>>

\* initialRes 'end': the buffered page goes through the extractor
Fetch1End(s, page) ==
    /\ s.kind = "download" /\ s.pc = "buffer"
    /\ LET pcloudInfo == extractPcloudInfo(page, s.link.originalUrl)
           filename   == UrlFilename(s.link.originalUrl)
       IN  Step(s, IF pcloudInfo # NoInfo /\ pcloudInfo.downloadLink
                   \* downloadFile(pcloudInfo.downloadLink, pcloudInfo.filename)
                   THEN [s EXCEPT !.pc = "fetch2", !.fetches = 2,
                                  !.contentDisposition =
                                      Attachment(IF pcloudInfo.filename
                                                 THEN <<MetadataName>>
                                                 ELSE filename)]
                   ELSE Respond([s EXCEPT
                                   !.contentDisposition =
                                       Attachment(Append(filename, ".html")),
                                   !.contentType = "text/html",
                                   !.piped = "htmlContent"], 200, ""))
    /\ UNCHANGED <<linkRow, uuidUsed, now, admitted, overlap, edited, authVars>>

\* downloadFile: the request for the extracted link fails to connect
Fetch2Error(s) ==
    /\ s.kind = "download" /\ s.pc = "fetch2"
    /\ Step(s, Respond(s, 500, "Failed to fetch file"))
    /\ UNCHANGED <<linkRow, uuidUsed, now, admitted, overlap, edited, authVars>>

\* downloadFile: 30 s without activity
Fetch2Timeout(s) ==
    /\ s.kind = "download" /\ s.pc = "fetch2"
    /\ Step(s, Respond(s, 500, "Request timeout"))
    /\ UNCHANGED <<linkRow, uuidUsed, now, admitted, overlap, edited, authVars>>

\* variant: every unsuccessful upstream status answered as a 500
Fetch2ResponseAs500(s, st, location, ct) ==
    /\ s.kind = "download" /\ s.pc = "fetch2"
    /\ LET t == [s EXCEPT !.up2 = st]
       IN  Step(s, IF st >= 300 /\ st < 400 /\ location # ""
                   THEN Respond([t EXCEPT !.location = location], 302, "")
                   ELSE IF st # 200
                        THEN Respond(t, 500, "Failed to fetch file: <status>")
                        ELSE Pipe([t EXCEPT
                                     !.contentType = IF ct # "" THEN ct ELSE @],
                                  "fileRes"))
    /\ UNCHANGED <<linkRow, uuidUsed, now, admitted, overlap, edited, authVars>>

\* variant: a redirect of the second fetch is followed with a further GET
Fetch2ResponseFollowing(s, st, location, ct) ==
    /\ s.kind = "download" /\ s.pc = "fetch2"
    /\ LET t == [s EXCEPT !.up2 = st]
       IN  Step(s, IF st >= 300 /\ st < 400 /\ location # ""
                   THEN [s EXCEPT !.fetches = 3]
                   ELSE IF st # 200
                        THEN Respond(t, st, "Failed to fetch file: <status>")
                        ELSE Pipe([t EXCEPT
                                     !.contentType = IF ct # "" THEN ct ELSE @],
                                  "fileRes"))
    /\ UNCHANGED <<linkRow, uuidUsed, now, admitted, overlap, edited, authVars>>

\* downloadFile: the response callback (ct, location: the Content-Type and
\* the Location of the response, "" for none)
Fetch2Response(s, st, location, ct) ==
    /\ s.kind = "download" /\ s.pc = "fetch2"
    /\ LET t == [s EXCEPT !.up2 = st]
       IN  Step(s, IF st >= 300 /\ st < 400 /\ location # ""
                   THEN Respond([t EXCEPT !.location = location], 302, "")
                   ELSE IF st # 200
                        THEN Respond(t, st, "Failed to fetch file: <status>")
                        ELSE Pipe([t EXCEPT
                                     !.contentType = IF ct # "" THEN ct ELSE @],
                                  "fileRes"))
    /\ UNCHANGED <<linkRow, uuidUsed, now, admitted, overlap, edited, authVars>>

\* the piped source delivers its first chunk: the status line and the
\* headers set so far go out with it
PipeData(s) ==
    /\ s.kind = "download" /\ s.pc = "sent"
    /\ s.piped \in {"initialRes", "fileRes"} /\ ~headersSent(s)
    /\ Step(s, [s EXCEPT !.heads = @ + 1])
    /\ UNCHANGED <<linkRow, uuidUsed, now, admitted, overlap, edited, authVars>>

\* variant: the error handler of the first fetch without its headersSent test
Fetch1ResetUnguarded(s) ==
    /\ s.kind = "download"
    /\ s.pc = "buffer" \/ (s.pc = "sent" /\ s.piped = "initialRes")
    /\ Step(s, Respond([s EXCEPT !.piped = IF s.pc = "buffer" THEN @ ELSE "aborted"],
                       500, "Failed to fetch file"))
    /\ UNCHANGED <<linkRow, uuidUsed, now, admitted, overlap, edited, authVars>>

\* the connection of the first fetch breaks once its response has begun,
\* while the page is buffered or the file is piped: the same 'error' handler,
\* which answers only if (!res.headersSent); a piped source is gone
Fetch1Reset(s) ==
    /\ s.kind = "download"
    /\ s.pc = "buffer" \/ (s.pc = "sent" /\ s.piped = "initialRes")
    /\ Step(s, IF headersSent(s)
               THEN [s EXCEPT !.piped = "aborted"]
               ELSE Respond([s EXCEPT !.piped = IF s.pc = "buffer" THEN @ ELSE "aborted"],
                            500, "Failed to fetch file"))
    /\ UNCHANGED <<linkRow, uuidUsed, now, admitted, overlap, edited, authVars>>

\* the second request can still emit 'error': its response has arrived, or
\* its timeout has destroyed it (a destroyed request without a response
\* emits 'socket hang up')
FileReqLive(s) ==
    /\ s.kind = "download" /\ s.pc = "sent" /\ s.fetches = 2
    /\ s.piped # "aborted"
    /\ s.up2 # 0 \/ s.error = "Request timeout"

\* variant: the error handler of downloadFile without its headersSent test
Fetch2ResetUnguarded(s) ==
    /\ FileReqLive(s)
    /\ Step(s, Respond([s EXCEPT !.piped = IF @ = "fileRes" THEN "aborted" ELSE @],
                       500, "Failed to fetch file"))
    /\ UNCHANGED <<linkRow, uuidUsed, now, admitted, overlap, edited, authVars>>

\* downloadFile: the 'error' handler running after the response callback or
\* after the timeout
Fetch2Reset(s) ==
    /\ FileReqLive(s)
    /\ Step(s, IF headersSent(s)
               THEN [s EXCEPT !.piped = IF @ = "fileRes" THEN "aborted" ELSE @]
               ELSE Respond([s EXCEPT !.piped = "aborted"], 500, "Failed to fetch file"))
    /\ UNCHANGED <<linkRow, uuidUsed, now, admitted, overlap, edited, authVars>>

\* downloadFile: 30 s without activity once the response has arrived;
\* fileReq.destroy() ends the piped source
Fetch2Stall(s) ==
    /\ FileReqLive(s) /\ s.up2 # 0
    /\ Step(s, IF headersSent(s)
               THEN [s EXCEPT !.piped = IF @ = "fileRes" THEN "aborted" ELSE @]
               ELSE Respond([s EXCEPT !.piped = "aborted"], 500, "Request timeout"))
    /\ UNCHANGED <<linkRow, uuidUsed, now, admitted, overlap, edited, authVars>>


\* ------------------------------------------------- PUT /api/links/:id
\* the handler's synchronous part: the updates object from the body's
\* defined fields, then one of its three continuations
PutStart(body) ==
    /\ LET updates == [k \in DOMAIN body \cap
                           {"title", "originalUrl", "maxDownloads", "expirationHours"}
                             |-> body[k]]
           t == [New("put", "start") EXCEPT !.updates = updates]
       IN  IF "expirationHours" \in DOMAIN body
           THEN IF body.expirationHours = NULL
                \* updates.expiresAt = null, and the handler returns
                THEN Accept([t EXCEPT !.pc = "hung",
                                      !.updates = updates @@ [expiresAt |-> NULL]])
                ELSE Accept([t EXCEPT !.pc = "putLoad"])
           ELSE Accept([t EXCEPT !.pc = "putUpdate"])
    /\ UNCHANGED <<linkRow, uuidUsed, now, admitted, overlap, edited, authVars>>

\* db.getLink of the expirationHours branch settles; after the 404 for a
\* missing link the returned res has no `changes`, so the next .then goes on
\* to call db.getLink
PutLoad(s, ok) ==
    /\ s.kind = "put" /\ s.pc = "putLoad"
    /\ LET link == getLink(linkRow)
       IN  Step(s, IF ~ok THEN Respond(s, 500, "Failed to update link")
                   ELSE IF link = NoRow
                        THEN [Respond(s, 404, "Link not found") EXCEPT !.chain = "getLink"]
                   ELSE [s EXCEPT !.pc = "putUpdate",
                                  !.updates = [expiresAt |-> link.createdAt
                                                 + s.updates.expirationHours] @@ @])
    /\ UNCHANGED <<linkRow, uuidUsed, now, admitted, overlap, edited, authVars>>

\* db.updateLink settles; without a statement it can only resolve
PutUpdate(s, ok) ==
    /\ s.kind = "put" /\ s.pc = "putUpdate"
    /\ ok \/ DOMAIN s.updates \ {"id"} # {}
    /\ linkRow' = IF ok THEN updateLink(linkRow, s.updates) ELSE linkRow
    /\ Step(s, IF ~ok THEN Respond(s, 500, "Failed to update link")
               ELSE IF updateChanges(linkRow, s.updates) = 0
                    THEN ChainAfterAnswer(Respond(s, 404, "Link not found"))
                    ELSE [s EXCEPT !.pc = "putGet", !.updates = NoUpdates])
    /\ edited' = (edited \/ (ok /\ linkRow # NoRow /\ "maxDownloads" \in DOMAIN s.updates))
    /\ UNCHANGED <<uuidUsed, now, admitted, overlap, authVars>>

\* the db.getLink that fetches the updated link settles
PutGet(s, ok) ==
    /\ s.kind = "put" /\ s.pc = "putGet"
    /\ Step(s, IF ok THEN Respond(s, 200, "")
                     ELSE Respond(s, 500, "Failed to update link"))
    /\ UNCHANGED <<linkRow, uuidUsed, now, admitted, overlap, edited, authVars>>

\* the db.getLink called after the 404 of the expirationHours branch settles:
\* resolved, res.json(updatedLink) throws and the .catch's
\* res.status(500).json(...) throws too; rejected, only the .catch runs
PutLateGet(s, ok) ==
    /\ s.kind = "put" /\ s.chain = "getLink"
    /\ Step(s, [(IF ok THEN Thrown(Thrown(s)) ELSE Thrown(s)) EXCEPT !.chain = "none"])
    /\ UNCHANGED <<linkRow, uuidUsed, now, admitted, overlap, edited, authVars>>

\* the branch for expirationHours = null neither updates nor answers: the
\* request stays open until the client drops the connection
PutAbandon(s) ==
    /\ s.kind = "put" /\ s.pc = "hung"
    /\ req' = req (-) One(s)
    /\ UNCHANGED <<linkRow, uuidUsed, now, admitted, overlap, edited, authVars>>

\* a call of db.updateLink(id, updates) as the store settles it: resolved
\* with this.changes (in status), or rejected by the statement; without a
\* statement it can only resolve
StoreUpdate(updates, ok) ==
    /\ ok \/ DOMAIN updates \ {"id"} # {}
    /\ linkRow' = IF ok THEN updateLink(linkRow, updates) ELSE linkRow
    /\ Accept([New("updateLink", "sent") EXCEPT
                 !.updates = updates,
                 !.status  = IF ok THEN updateChanges(linkRow, updates) ELSE 0,
                 !.error   = IF ok THEN "" ELSE "rejected"])
    /\ UNCHANGED <<uuidUsed, now, admitted, overlap, edited, authVars>>

\* ---------------------------------------------- DELETE /api/links/:id
DeleteStart ==
    /\ Accept(New("delete", "deleteLink"))
    /\ UNCHANGED <<linkRow, uuidUsed, now, admitted, overlap, edited, authVars>>

DeleteRun(s, ok) ==
    /\ s.kind = "delete" /\ s.pc = "deleteLink"
    /\ linkRow' = IF ok THEN deleteLink(linkRow) ELSE linkRow
    /\ Step(s, IF ~ok THEN Respond(s, 500, "Failed to delete link")
               ELSE IF linkRow = NoRow THEN Respond(s, 404, "Link not found")
               ELSE Respond(s, 200, ""))
    /\ UNCHANGED <<uuidUsed, now, admitted, overlap, edited, authVars>>

\* ------------------------------------------- POST /api/links/:id/reset
\* variant: the reset also clears the expiry
ResetUpdatesWithExpiry == [currentDownloads |-> 0, isActive |-> 1, expiresAt |-> NULL]

\* the updates object of the reset handler
ResetUpdates == [currentDownloads |-> 0, isActive |-> 1]

ResetStart ==
    /\ Accept(New("reset", "resetUpdate"))
    /\ UNCHANGED <<linkRow, uuidUsed, now, admitted, overlap, edited, authVars>>

ResetUpdate(s, ok) ==
    /\ s.kind = "reset" /\ s.pc = "resetUpdate"
    /\ linkRow' = IF ok THEN updateLink(linkRow, ResetUpdates) ELSE linkRow
    /\ admitted' = IF ok /\ linkRow # NoRow THEN 0 ELSE admitted
    /\ Step(s, IF ~ok THEN Respond(s, 500, "Failed to reset link")
               ELSE IF updateChanges(linkRow, ResetUpdates) = 0
                    THEN ChainAfterAnswer(Respond(s, 404, "Link not found"))
                    ELSE [s EXCEPT !.pc = "resetGet"])
    /\ UNCHANGED <<uuidUsed, now, overlap, edited, authVars>>

ResetGet(s, ok) ==
    /\ s.kind = "reset" /\ s.pc = "resetGet"
    /\ Step(s, IF ok THEN Respond(s, 200, "")
                     ELSE Respond(s, 500, "Failed to reset link"))
    /\ UNCHANGED <<linkRow, uuidUsed, now, admitted, overlap, edited, authVars>>

\* -------------------------------- POST /api/links/:id/check and /refresh
\* what the HEAD request resolves with: a response, an error, the timeout
HeadResponse(st) == [isValid |-> (st >= 200 /\ st < 400), statusCode |-> st, error |-> ""]
HeadError        == [isValid |-> FALSE, statusCode |-> NULL, error |-> "connect error"]
HeadTimeout      == [isValid |-> FALSE, statusCode |-> NULL, error |-> "Request timeout"]

ProbeStart(kind) ==
    /\ kind \in {"check", "refresh"}
    /\ Accept(New(kind, "probeLoad"))
    /\ UNCHANGED <<linkRow, uuidUsed, now, admitted, overlap, edited, authVars>>

\* db.getLink settles; the HEAD request goes out
ProbeLoad(s, ok) ==
    /\ s.kind \in {"check", "refresh"} /\ s.pc = "probeLoad"
    /\ LET link == getLink(linkRow)
           msg  == IF s.kind = "check" THEN "Failed to check link validity"
                                       ELSE "Failed to refresh link"
       IN  Step(s, IF ~ok THEN Respond(s, 500, msg)
                   ELSE IF link = NoRow THEN Respond(s, 404, "Link not found")
                   ELSE [s EXCEPT !.pc = "probe",
                           !.link = IF s.kind = "refresh"
                                    THEN [ expiresAt      |-> link.expiresAt,
                                           isLimitReached |-> LimitReached(link) ]
                                    ELSE NoRow])
    /\ UNCHANGED <<linkRow, uuidUsed, now, admitted, overlap, edited, authVars>>

\* variant: a check that finds the link valid also reactivates it
CheckUpdatesReactivating(checkResult, t) ==
    [ isValid     |-> IF checkResult.isValid THEN 1 ELSE 0,
      lastChecked |-> t,
      statusCode  |-> checkResult.statusCode,
      error       |-> checkResult.error ]
    @@ (IF checkResult.isValid THEN [isActive |-> 1] ELSE NoUpdates)

\* the updates object of the check handler
CheckUpdates(checkResult, t) ==
    [ isValid     |-> IF checkResult.isValid THEN 1 ELSE 0,
      lastChecked |-> t,
      statusCode  |-> checkResult.statusCode,
      error       |-> checkResult.error ]

\* the updates object of the refresh handler: isActive is set only for a
\* valid link that the loaded object shows neither expired nor at its limit
RefreshUpdates(link, checkResult, t) ==
    LET isExpired      == link.expiresAt # NULL /\ t > link.expiresAt
        isLimitReached == link.isLimitReached
    IN  [ isValid     |-> IF checkResult.isValid THEN 1 ELSE 0,
          lastChecked |-> t,
          statusCode  |-> checkResult.statusCode,
          error       |-> checkResult.error ]
        @@ (IF checkResult.isValid /\ ~isExpired /\ ~isLimitReached
            THEN [isActive |-> 1] ELSE NoUpdates)

\* the HEAD request resolves; db.updateLink is issued
ProbeResult(s, checkResult) ==
    /\ s.kind \in {"check", "refresh"} /\ s.pc = "probe"
    /\ Step(s, [s EXCEPT !.pc = "probeUpdate", !.link = NoRow,
                  !.updates = IF s.kind = "check"
                              THEN CheckUpdates(checkResult, now)
                              ELSE RefreshUpdates(s.link, checkResult, now)])
    /\ UNCHANGED <<linkRow, uuidUsed, now, admitted, overlap, edited, authVars>>

\* db.updateLink settles
ProbeUpdate(s, ok) ==
    /\ s.kind \in {"check", "refresh"} /\ s.pc = "probeUpdate"
    /\ linkRow' = IF ok THEN updateLink(linkRow, s.updates) ELSE linkRow
    /\ Step(s, IF ok THEN [s EXCEPT !.pc = "probeGet", !.updates = NoUpdates]
               ELSE Respond(s, 500, IF s.kind = "check"
                                    THEN "Failed to check link validity"
                                    ELSE "Failed to refresh link"))
    /\ UNCHANGED <<uuidUsed, now, admitted, overlap, edited, authVars>>

\* the db.getLink that fetches the updated link settles
ProbeGet(s, ok) ==
    /\ s.kind \in {"check", "refresh"} /\ s.pc = "probeGet"
    /\ Step(s, IF ok THEN Respond(s, 200, "")
               ELSE Respond(s, 500, IF s.kind = "check"
                                    THEN "Failed to check link validity"
                                    ELSE "Failed to refresh link"))
    /\ UNCHANGED <<linkRow, uuidUsed, now, admitted, overlap, edited, authVars>>

\* ------------------------------------------ GET /api/links/:id, /api/links
GetStart ==
    /\ Accept(New("get", "getLink"))
    /\ UNCHANGED <<linkRow, uuidUsed, now, admitted, overlap, edited, authVars>>

GetRun(s, ok) ==
    /\ s.kind = "get" /\ s.pc = "getLink"
    /\ Step(s, IF ~ok THEN Respond(s, 500, "Failed to fetch link")
               ELSE IF getLink(linkRow) = NoRow THEN Respond(s, 404, "Link not found")
               ELSE Respond(s, 200, ""))
    /\ UNCHANGED <<linkRow, uuidUsed, now, admitted, overlap, edited, authVars>>

ListStart ==
    /\ Accept(New("list", "getAllLinks"))
    /\ UNCHANGED <<linkRow, uuidUsed, now, admitted, overlap, edited, authVars>>

ListRun(s, ok) ==
    /\ s.kind = "list" /\ s.pc = "getAllLinks"
    /\ Step(s, IF ok THEN Respond(s, 200, "")
                     ELSE Respond(s, 500, "Failed to fetch links"))
    /\ UNCHANGED <<linkRow, uuidUsed, now, admitted, overlap, edited, authVars>>

\* ------------------------------------------------------ users and sessions
\* the users table; a deleted row leaves NoRow at its id, which the
\* AUTOINCREMENT key never hands out again.  SELECT ... FROM users: the ids
\* of the rows
getAllUsers == { i \in DOMAIN users : users[i] # NoRow }

\* SELECT * FROM users WHERE id = ? / WHERE username = ?
getUserById(id) ==
    IF id \in getAllUsers THEN [id |-> id] @@ users[id] ELSE NoRow

getUserByUsername(username) ==
    IF \E i \in getAllUsers : users[i].username = username
    THEN LET i == CHOOSE i \in getAllUsers : users[i].username = username
         IN  [id |-> i] @@ users[i]
    ELSE NoRow

\* DELETE FROM users WHERE id = ?
deleteUser(id) ==
    IF id \in getAllUsers THEN [users EXCEPT ![id] = NoRow] ELSE users

\* INSERT INTO users: the id is the next of the AUTOINCREMENT key
createUser(username, hashedPassword, role) ==
    Append(users, [username |-> username, password |-> hashedPassword, role |-> role])

\* bcrypt.hash and bcrypt.compare
hash(password) == <<"bcrypt", password>>
compare(password, hashedPassword) == hashedPassword = hash(password)

\* the session ids generateSessionId can return
SessionIds == {"s1", "s2"}

NoSessions == [k \in {} |-> NULL]

\* sessionId && sessions.has(sessionId), on the request's X-Session-ID header
Authenticated == sessionId # "" /\ sessionId \in DOMAIN sessions

\* the JSON 401 of both middlewares
Unauthenticated(kind) ==
    /\ Accept(Respond(New(kind, "start"), 401, "Authentication required"))
    /\ UNCHANGED <<linkRow, uuidUsed, now, admitted, overlap, edited, authVars>>

\* variant: requireAuth passes every request that has the header
requireAuthHeaderOnly(kind, next) ==
    IF sessionId # "" THEN next ELSE Unauthenticated(kind)

\* requireAuth in front of a route: next() runs the handler's synchronous
\* part in the same callback
requireAuth(kind, next) ==
    IF Authenticated THEN next ELSE Unauthenticated(kind)

\* a client sends whatever X-Session-ID header it likes
SetSessionId(id) ==
    /\ sessionId' = id
    /\ UNCHANGED <<linkRow, uuidUsed, now, req, admitted, overlap, edited, users, sessions>>

\* the callback of app.listen: the default administrator is created when
\* the users table is empty.  Its three store and hashing calls are taken
\* as one step: while the table is empty no request can write it
ListenCallback ==
    /\ users = <<>>
    /\ users' = createUser("admin", hash("admin123"), "admin")
    /\ UNCHANGED <<linkRow, uuidUsed, now, req, admitted, overlap, edited, sessions, sessionId>>

\* POST /api/login: validation, then db.getUserByUsername is issued
LoginStart(body) ==
    /\ IF body.username = "" \/ body.password = ""
       THEN Accept(Respond(New("login", "start"), 400, "Username and password are required"))
       ELSE Accept([New("login", "loginUser") EXCEPT !.body = body])
    /\ UNCHANGED <<linkRow, uuidUsed, now, admitted, overlap, edited, authVars>>

\* getUserByUsername settles; bcrypt.compare is issued
LoginUser(s, ok) ==
    /\ s.kind = "login" /\ s.pc = "loginUser"
    /\ LET user == getUserByUsername(s.body.username)
       IN  Step(s, IF ~ok THEN Respond(s, 500, "Login failed")
                   ELSE IF user = NoRow
                        THEN Respond(s, 401, "Invalid username or password")
                        ELSE [s EXCEPT !.pc = "compare", !.session = user.id,
                                       !.body = [password |-> s.body.password,
                                                 hashed   |-> user.password]])
    /\ UNCHANGED <<linkRow, uuidUsed, now, admitted, overlap, edited, authVars>>

\* bcrypt.compare settles; a valid password gets a session under a new id
LoginCompare(s, id) ==
    /\ s.kind = "login" /\ s.pc = "compare"
    /\ IF compare(s.body.password, s.body.hashed)
       THEN /\ id \in SessionIds \ DOMAIN sessions
            /\ sessions' = (id :> s.session) @@ sessions
            /\ Step(s, Respond(s, 200, ""))
       ELSE /\ Step(s, Respond(s, 401, "Invalid username or password"))
            /\ UNCHANGED sessions
    /\ UNCHANGED <<linkRow, uuidUsed, now, admitted, overlap, edited, users, sessionId>>

\* POST /api/logout
Logout ==
    /\ sessions' = IF Authenticated
                   THEN [k \in DOMAIN sessions \ {sessionId} |-> sessions[k]]
                   ELSE sessions
    /\ Accept(Respond(New("logout", "start"), 200, ""))
    /\ UNCHANGED <<linkRow, uuidUsed, now, admitted, overlap, edited, users, sessionId>>

\* POST /api/users behind requireAdmin: the session test, then db.getUserById
\* is awaited
UsersPostStart(body) ==
    IF Authenticated
    THEN /\ Accept([New("users", "adminUser") EXCEPT !.session = sessions[sessionId],
                                                     !.body = body])
         /\ UNCHANGED <<linkRow, uuidUsed, now, admitted, overlap, edited, authVars>>
    ELSE Unauthenticated("users")

\* variant: requireAdmin lets every existing user through
RequireAdminAnyRole(s, ok) ==
    /\ s.kind = "users" /\ s.pc = "adminUser"
    /\ LET user == getUserById(s.session)
       IN  Step(s, IF ~ok THEN Respond(s, 500, "Internal server error")
                   ELSE IF user = NoRow
                        THEN Respond(s, 403, "Admin access required")
                   ELSE IF s.body.username = "" \/ s.body.password = ""
                        THEN Respond(s, 400, "Username and password are required")
                   ELSE [s EXCEPT !.pc = "existingUser"])
    /\ UNCHANGED <<linkRow, uuidUsed, now, admitted, overlap, edited, authVars>>

\* requireAdmin after its await: the role test, then next() runs the
\* handler up to db.getUserByUsername
RequireAdmin(s, ok) ==
    /\ s.kind = "users" /\ s.pc = "adminUser"
    /\ LET user == getUserById(s.session)
       IN  Step(s, IF ~ok THEN Respond(s, 500, "Internal server error")
                   ELSE IF user = NoRow \/ user.role # "admin"
                        THEN Respond(s, 403, "Admin access required")
                   ELSE IF s.body.username = "" \/ s.body.password = ""
                        THEN Respond(s, 400, "Username and password are required")
                   ELSE [s EXCEPT !.pc = "existingUser"])
    /\ UNCHANGED <<linkRow, uuidUsed, now, admitted, overlap, edited, authVars>>

\* getUserByUsername settles; bcrypt.hash is awaited
UsersPostExisting(s, ok) ==
    /\ s.kind = "users" /\ s.pc = "existingUser"
    /\ Step(s, IF ~ok THEN Respond(s, 500, "Failed to create user")
               ELSE IF getUserByUsername(s.body.username) # NoRow
                    THEN Respond(s, 400, "Username already exists")
                    ELSE [s EXCEPT !.pc = "hash"])
    /\ UNCHANGED <<linkRow, uuidUsed, now, admitted, overlap, edited, authVars>>

\* bcrypt.hash settles; db.createUser is awaited
UsersPostHash(s) ==
    /\ s.kind = "users" /\ s.pc = "hash"
    /\ Step(s, [s EXCEPT !.pc = "createUser",
                         !.body = [ username |-> s.body.username,
                                    password |-> hash(s.body.password),
                                    role     |-> IF s.body.role = "admin"
                                                 THEN "admin" ELSE "user" ]])
    /\ UNCHANGED <<linkRow, uuidUsed, now, admitted, overlap, edited, authVars>>

\* the INSERT settles; it fails on a username that exists (UNIQUE)
UsersPostCreate(s, ok) ==
    /\ s.kind = "users" /\ s.pc = "createUser"
    /\ IF ok /\ getUserByUsername(s.body.username) = NoRow
       THEN /\ users' = createUser(s.body.username, s.body.password, s.body.role)
            /\ Step(s, Respond(s, 201, ""))
       ELSE /\ Step(s, Respond(s, 500, "Failed to create user"))
            /\ UNCHANGED users
    /\ UNCHANGED <<linkRow, uuidUsed, now, admitted, overlap, edited, sessions, sessionId>>

\* DELETE /api/users/:id behind requireAuth, which sets req.session.userId;
\* db.getAllUsers is awaited
UserDeleteStart(id) ==
    requireAuth("userDelete",
        /\ Accept([New("userDelete", "getAllUsers") EXCEPT
                      !.session = sessions[sessionId], !.body = [id |-> id]])
        /\ UNCHANGED <<linkRow, uuidUsed, now, admitted, overlap, edited, authVars>>)

\* getAllUsers settles: the last-user test and the own-account test, then
\* db.deleteUser is awaited
UserDeleteCount(s, ok) ==
    /\ s.kind = "userDelete" /\ s.pc = "getAllUsers"
    /\ Step(s, IF ~ok THEN Respond(s, 500, "Failed to delete user")
               ELSE IF Cardinality(getAllUsers) <= 1
                    THEN Respond(s, 400, "Cannot delete the last user")
               ELSE IF s.body.id = s.session
                    THEN Respond(s, 400, "Cannot delete your own account")
               ELSE [s EXCEPT !.pc = "deleteUser"])
    /\ UNCHANGED <<linkRow, uuidUsed, now, admitted, overlap, edited, authVars>>

\* deleteUser settles
UserDeleteRun(s, ok) ==
    /\ s.kind = "userDelete" /\ s.pc = "deleteUser"
    /\ users' = IF ok THEN deleteUser(s.body.id) ELSE users
    /\ Step(s, IF ~ok THEN Respond(s, 500, "Failed to delete user")
               ELSE IF s.body.id \notin getAllUsers THEN Respond(s, 404, "User not found")
               ELSE Respond(s, 200, ""))
    /\ UNCHANGED <<linkRow, uuidUsed, now, admitted, overlap, edited, sessions, sessionId>>

\* ---------------------------------------------------------- specifications
Init ==
    /\ linkRow = NoRow
    /\ uuidUsed = FALSE
    /\ now = 0
    /\ req = EmptyBag
    /\ admitted = 0
    /\ overlap = FALSE
    /\ edited = FALSE
    /\ users = <<>>
    /\ sessions = NoSessions
    /\ sessionId = ""

\* what the clients and the upstream servers send
UrlInputs    == {"", "https://u.pcloud.link/p"}
CapInputs    == {NULL} \cup 0..MaxCap
HourInputs   == {NULL} \cup 0..MaxHours
UpStatuses   == {200, 404}
ContentTypes == {"text/html; charset=utf-8", "application/zip"}
SomePages    == { p \in Pages : Len(p) = 1 /\ p[1].publinkData /\ p[1].metadata = "json" }
CapBodies    == { [maxDownloads |-> m] : m \in {NULL} \cup 1..MaxCap }
HourBodies   == { [expirationHours |-> h] : h \in {NULL} \cup 0..MaxHours }
ProbeInputs  == {HeadResponse(200), HeadError}
Locations    == {"", "https://cdn.example/f.zip"}
UrlBodies    == { [originalUrl |-> u] : u \in {"", "http://files.example/f.zip"} }

\* no request is in flight
Idle == req = EmptyBag

\* a request whose next callback touches nothing but its own response: the
\* upstream fetches, the read that only fills the response body, the flush
Local(s) == s.pc \in {"fetch1", "buffer", "fetch2", "sent", "putGet", "resetGet", "probeGet"}

\* such callbacks commute with every other request's steps; the
\* specifications below, PipeSpec excepted, run them first, so that requests
\* interleave only where they read or write the row or the clock
Quiet == \A s \in InFlight : ~Local(s)

Flush == \E s \in InFlight : Finish(s)

Upstream ==
    \/ \E s \in InFlight : Fetch1Error(s)
    \/ \E s \in InFlight, st \in UpStatuses, ct \in ContentTypes : Fetch1Response(s, st, ct, "")
    \/ \E s \in InFlight, page \in SomePages : Fetch1End(s, page)
    \/ \E s \in InFlight : Fetch2Error(s)
    \/ \E s \in InFlight : Fetch2Timeout(s)
    \/ \E s \in InFlight, st \in UpStatuses, location \in Locations :
          Fetch2Response(s, st, location, "application/zip")

CreateSteps ==
    Quiet /\ \E s \in InFlight, ok \in BOOLEAN : CreateInsert(s, ok)

DownloadSteps ==
    \/ Quiet /\ \E s \in InFlight : DownloadGetLink(s)
    \/ Quiet /\ \E s \in InFlight : DownloadGetLinkFail(s)
    \/ Quiet /\ \E s \in InFlight, ok \in BOOLEAN : DownloadDeactExpired(s, ok)
    \/ Quiet /\ \E s \in InFlight, ok \in BOOLEAN : DownloadDeactLimit(s, ok)
    \/ Quiet /\ \E s \in InFlight, ok \in BOOLEAN : BkIncrement(s, ok)
    \/ Quiet /\ \E s \in InFlight, ok \in BOOLEAN : BkDeactivate(s, ok)

ResetSteps ==
    \/ Quiet /\ \E s \in InFlight, ok \in BOOLEAN : ResetUpdate(s, ok)
    \/ \E s \in InFlight, ok \in BOOLEAN : ResetGet(s, ok)

PutSteps ==
    \/ Quiet /\ \E s \in InFlight, ok \in BOOLEAN : PutLoad(s, ok)
    \/ Quiet /\ \E s \in InFlight, ok \in BOOLEAN : PutUpdate(s, ok)
    \/ \E s \in InFlight, ok \in BOOLEAN : PutGet(s, ok)

DeleteSteps ==
    Quiet /\ \E s \in InFlight, ok \in BOOLEAN : DeleteRun(s, ok)

ProbeSteps ==
    \/ Quiet /\ \E s \in InFlight, ok \in BOOLEAN : ProbeLoad(s, ok)
    \/ Quiet /\ \E s \in InFlight, c \in ProbeInputs : ProbeResult(s, c)
    \/ Quiet /\ \E s \in InFlight, ok \in BOOLEAN : ProbeUpdate(s, ok)
    \/ \E s \in InFlight, ok \in BOOLEAN : ProbeGet(s, ok)

\* Spec: the lifecycle of a link under concurrent downloads and resets, with
\* the clock running and the store's writes failing at will
Next ==
    \/ Flush
    \/ Upstream
    \/ Quiet /\ Tick
    \/ Quiet /\ \E u \in UrlInputs, m \in CapInputs, h \in HourInputs : CreateStart(u, m, h)
    \/ Quiet /\ DownloadStart
    \/ Quiet /\ ResetStart
    \/ CreateSteps
    \/ DownloadSteps
    \/ ResetSteps

Spec == Init /\ [][Next]_vars

\* SeqSpec: downloads served one after the other, the next arriving when the
\* bookkeeping of the one before has settled; the counter's writes succeed
SeqNext ==
    \/ Flush
    \/ Upstream
    \/ Idle /\ Tick
    \/ Idle /\ \E u \in UrlInputs, m \in CapInputs, h \in HourInputs : CreateStart(u, m, h)
    \/ Idle /\ DownloadStart
    \/ CreateSteps
    \/ Quiet /\ \E s \in InFlight : DownloadGetLink(s)
    \/ Quiet /\ \E s \in InFlight : DownloadGetLinkFail(s)
    \/ Quiet /\ \E s \in InFlight, ok \in BOOLEAN : DownloadDeactExpired(s, ok)
    \/ Quiet /\ \E s \in InFlight, ok \in BOOLEAN : DownloadDeactLimit(s, ok)
    \/ Quiet /\ \E s \in InFlight : BkIncrement(s, TRUE)
    \/ Quiet /\ \E s \in InFlight, ok \in BOOLEAN : BkDeactivate(s, ok)

SeqSpec == Init /\ [][SeqNext]_vars

\* CountSpec: downloads racing with resets, refreshes and updates of the cap,
\* on links without expiry.  One administrative request is in flight at a
\* time, its store calls succeed and its probe is answered 200; the writes
\* of the downloads fail at will
OneAdmin == \A s \in InFlight : s.kind \in {"download", "create"}

CountNext ==
    \/ Flush
    \/ Upstream
    \/ Quiet /\ \E u \in UrlInputs, m \in CapInputs : CreateStart(u, m, NULL)
    \/ Quiet /\ DownloadStart
    \/ Quiet /\ OneAdmin /\ ResetStart
    \/ Quiet /\ OneAdmin /\ ProbeStart("refresh")
    \/ Quiet /\ OneAdmin /\ \E body \in CapBodies : PutStart(body)
    \/ CreateSteps
    \/ Quiet /\ \E s \in InFlight : DownloadGetLink(s)
    \/ Quiet /\ \E s \in InFlight : DownloadGetLinkFail(s)
    \/ Quiet /\ \E s \in InFlight, ok \in BOOLEAN : DownloadDeactLimit(s, ok)
    \/ Quiet /\ \E s \in InFlight, ok \in BOOLEAN : BkIncrement(s, ok)
    \/ Quiet /\ \E s \in InFlight, ok \in BOOLEAN : BkDeactivate(s, ok)
    \/ Quiet /\ \E s \in InFlight : ResetUpdate(s, TRUE)
    \/ \E s \in InFlight : ResetGet(s, TRUE)
    \/ Quiet /\ \E s \in InFlight : ProbeLoad(s, TRUE)
    \/ Quiet /\ \E s \in InFlight : ProbeResult(s, HeadResponse(200))
    \/ Quiet /\ \E s \in InFlight : ProbeUpdate(s, TRUE)
    \/ \E s \in InFlight : ProbeGet(s, TRUE)
    \/ Quiet /\ \E s \in InFlight : PutUpdate(s, TRUE)
    \/ \E s \in InFlight : PutGet(s, TRUE)

CountSpec == Init /\ [][CountNext]_vars

\* RefreshSpec: downloads racing with refreshes while the clock runs
RefreshNext ==
    \/ Flush
    \/ Upstream
    \/ Quiet /\ Tick
    \/ Quiet /\ \E u \in UrlInputs, m \in CapInputs, h \in HourInputs : CreateStart(u, m, h)
    \/ Quiet /\ DownloadStart
    \/ Quiet /\ ProbeStart("refresh")
    \/ CreateSteps
    \/ DownloadSteps
    \/ ProbeSteps

RefreshSpec == Init /\ [][RefreshNext]_vars

\* AdminSpec: every operation on the link, one request at a time
AdminNext ==
    \/ Flush
    \/ Upstream
    \/ Idle /\ Tick
    \/ Idle /\ \E u \in UrlInputs, m \in CapInputs, h \in HourInputs : CreateStart(u, m, h)
    \/ Idle /\ DownloadStart
    \/ Idle /\ \E body \in CapBodies \cup HourBodies : PutStart(body)
    \/ Idle /\ DeleteStart
    \/ Idle /\ ResetStart
    \/ Idle /\ \E kind \in {"check", "refresh"} : ProbeStart(kind)
    \/ CreateSteps
    \/ DownloadSteps
    \/ ResetSteps
    \/ PutSteps
    \/ \E s \in InFlight : PutAbandon(s)
    \/ DeleteSteps
    \/ ProbeSteps

AdminSpec == Init /\ [][AdminNext]_vars

\* PipeSpec: one download at a time through the whole upstream pipeline, its
\* bookkeeping writes settling at any moment of it
PipeUrls     == {"", "files.example/f.zip", "http://files.example/f.zip",
                 "http://files.example/", "https://u.pcloud.link/p"}
PipeStatuses == {200, 206, 301, 404, 503}
PipeTypes    == {"", "text/html", "application/zip"}
PipeDispositions == {"", "inline", "attachment; filename=\"report.pdf\""}

PipeNext ==
    \/ Flush
    \/ Idle /\ Tick
    \/ Idle /\ \E u \in PipeUrls, m \in {NULL, 1}, h \in {NULL, 1} : CreateStart(u, m, h)
    \/ Idle /\ DownloadStart
    \/ \E s \in InFlight, ok \in BOOLEAN : CreateInsert(s, ok)
    \/ \E s \in InFlight : DownloadGetLink(s)
    \/ \E s \in InFlight : DownloadGetLinkFail(s)
    \/ \E s \in InFlight, ok \in BOOLEAN : DownloadDeactExpired(s, ok)
    \/ \E s \in InFlight, ok \in BOOLEAN : DownloadDeactLimit(s, ok)
    \/ \E s \in InFlight, ok \in BOOLEAN : BkIncrement(s, ok)
    \/ \E s \in InFlight, ok \in BOOLEAN : BkDeactivate(s, ok)
    \/ \E s \in InFlight : Fetch1Error(s)
    \/ \E s \in InFlight, st \in PipeStatuses, ct \in PipeTypes, cd \in PipeDispositions :
          Fetch1Response(s, st, ct, cd)
    \/ \E s \in InFlight, page \in Pages : Fetch1End(s, page)
    \/ \E s \in InFlight : Fetch2Error(s)
    \/ \E s \in InFlight : Fetch2Timeout(s)
    \/ \E s \in InFlight, st \in PipeStatuses, location \in Locations, ct \in PipeTypes :
          Fetch2Response(s, st, location, ct)

PipeSpec == Init /\ [][PipeNext]_vars

\* PageSpec: downloads, one at a time, whose first response is a landing
\* page: every page of up to MaxScripts script blocks goes through the
\* extractor
PageUrls == {"http://files.example/f.zip", "https://u.pcloud.link/p"}

PageNext ==
    \/ Flush
    \/ Idle /\ \E u \in PageUrls : CreateStart(u, NULL, NULL)
    \/ \E s \in InFlight : CreateInsert(s, TRUE)
    \/ Idle /\ DownloadStart
    \/ \E s \in InFlight : DownloadGetLink(s)
    \/ \E s \in InFlight : BkIncrement(s, TRUE)
    \/ \E s \in InFlight, st \in UpStatuses, ct \in {"text/html", "text/html; charset=utf-8"} :
          Fetch1Response(s, st, ct, "")
    \/ \E s \in InFlight, page \in Pages : Fetch1End(s, page)
    \/ \E s \in InFlight : Fetch2Error(s)
    \/ \E s \in InFlight, st \in UpStatuses, location \in Locations :
          Fetch2Response(s, st, location, "application/zip")

PageSpec == Init /\ [][PageNext]_vars

\* AuthSpec: the session gate in front of the routes.  One request at a
\* time; the client logs in and out and sends any session id it likes
LoginBodies == { [username |-> u, password |-> p] :
                   u \in {"", "admin", "bob"}, p \in {"", "admin123", "pw"} }
UserBodies  == { [username |-> u, password |-> "pw", role |-> r] :
                   u \in {"", "bob"}, r \in {"user", "admin"} }

AuthNext ==
    \/ Flush
    \/ Idle /\ ListenCallback
    \/ Idle /\ \E id \in SessionIds \cup {""} : SetSessionId(id)
    \/ Idle /\ \E body \in LoginBodies : LoginStart(body)
    \/ \E s \in InFlight, ok \in BOOLEAN : LoginUser(s, ok)
    \/ \E s \in InFlight, id \in SessionIds : LoginCompare(s, id)
    \/ Idle /\ Logout
    \/ Idle /\ \E body \in UserBodies : UsersPostStart(body)
    \/ \E s \in InFlight, ok \in BOOLEAN : RequireAdmin(s, ok)
    \/ \E s \in InFlight, ok \in BOOLEAN : UsersPostExisting(s, ok)
    \/ \E s \in InFlight : UsersPostHash(s)
    \/ \E s \in InFlight, ok \in BOOLEAN : UsersPostCreate(s, ok)
    \/ Idle /\ DownloadStart
    \/ \E s \in InFlight : DownloadGetLink(s)
    \/ \E s \in InFlight : DownloadGetLinkFail(s)
    \/ \E s \in InFlight : BkIncrement(s, TRUE)
    \/ \E s \in InFlight : Fetch1Response(s, 200, "application/zip", "")
    \/ Idle /\ requireAuth("create", \E u \in UrlInputs : CreateStart(u, NULL, NULL))
    \/ Idle /\ requireAuth("get", GetStart)
    \/ Idle /\ requireAuth("list", ListStart)
    \/ Idle /\ requireAuth("put", \E body \in CapBodies \cup UrlBodies : PutStart(body))
    \/ Idle /\ requireAuth("delete", DeleteStart)
    \/ Idle /\ requireAuth("reset", ResetStart)
    \/ Idle /\ \E kind \in {"check", "refresh"} : requireAuth(kind, ProbeStart(kind))
    \/ \E s \in InFlight : CreateInsert(s, TRUE)
    \/ \E s \in InFlight, ok \in BOOLEAN : GetRun(s, ok)
    \/ \E s \in InFlight, ok \in BOOLEAN : ListRun(s, ok)
    \/ \E s \in InFlight : PutUpdate(s, TRUE)
    \/ \E s \in InFlight : PutGet(s, TRUE)
    \/ \E s \in InFlight : DeleteRun(s, TRUE)
    \/ \E s \in InFlight : ResetUpdate(s, TRUE)
    \/ \E s \in InFlight : ResetGet(s, TRUE)
    \/ \E s \in InFlight : ProbeLoad(s, TRUE)
    \/ \E s \in InFlight : ProbeResult(s, HeadResponse(200))
    \/ \E s \in InFlight : ProbeUpdate(s, TRUE)
    \/ \E s \in InFlight : ProbeGet(s, TRUE)

AuthSpec == Init /\ [][AuthNext]_vars

\* RaceSpec: downloads of a link without expiry interleaving at will, every
\* store write succeeding
RaceNext ==
    \/ Flush
    \/ Upstream
    \/ Quiet /\ \E u \in UrlInputs, m \in CapInputs : CreateStart(u, m, NULL)
    \/ Quiet /\ DownloadStart
    \/ Quiet /\ \E s \in InFlight : CreateInsert(s, TRUE)
    \/ Quiet /\ \E s \in InFlight : DownloadGetLink(s)
    \/ Quiet /\ \E s \in InFlight : DownloadGetLinkFail(s)
    \/ Quiet /\ \E s \in InFlight : DownloadDeactLimit(s, TRUE)
    \/ Quiet /\ \E s \in InFlight : BkIncrement(s, TRUE)
    \/ Quiet /\ \E s \in InFlight : BkDeactivate(s, TRUE)

RaceSpec == Init /\ [][RaceNext]_vars

\* StreamSpec: one download at a time with the upstream connections failing
\* and stalling at any moment, before and after their responses
StreamTypes == {"", "text/html", "application/zip"}
StreamPages == SomePages \cup {<<>>}

StreamNext ==
    \/ Flush
    \/ Idle /\ \E u \in PipeUrls, m \in {NULL, 1} : CreateStart(u, m, NULL)
    \/ \E s \in InFlight : CreateInsert(s, TRUE)
    \/ Idle /\ DownloadStart
    \/ \E s \in InFlight : DownloadGetLink(s)
    \/ \E s \in InFlight : DownloadGetLinkFail(s)
    \/ \E s \in InFlight, ok \in BOOLEAN : DownloadDeactLimit(s, ok)
    \/ \E s \in InFlight, ok \in BOOLEAN : BkIncrement(s, ok)
    \/ \E s \in InFlight, ok \in BOOLEAN : BkDeactivate(s, ok)
    \/ \E s \in InFlight : Fetch1Error(s)
    \/ \E s \in InFlight, st \in UpStatuses, ct \in StreamTypes : Fetch1Response(s, st, ct, "")
    \/ \E s \in InFlight : Fetch1Reset(s)
    \/ \E s \in InFlight, page \in StreamPages : Fetch1End(s, page)
    \/ \E s \in InFlight : PipeData(s)
    \/ \E s \in InFlight : Fetch2Error(s)
    \/ \E s \in InFlight : Fetch2Timeout(s)
    \/ \E s \in InFlight, st \in PipeStatuses, location \in Locations :
          Fetch2Response(s, st, location, "application/zip")
    \/ \E s \in InFlight : Fetch2Reset(s)
    \/ \E s \in InFlight : Fetch2Stall(s)

StreamSpec == Init /\ [][StreamNext]_vars

\* StallSpec: StreamSpec with what the code's scheduling guarantees.  The
\* store answers every call; a response written with json, send or redirect
\* goes out; the 30 s timer of downloadFile bounds every wait on the second
\* request, before its response and while its body is piped.  The first
\* request has no timer: nothing bounds the wait for its response, for the
\* end of a buffered page or for the chunks of a piped file
StallFair ==
    /\ WF_vars(\E s \in InFlight : CreateInsert(s, TRUE))
    /\ WF_vars(\E s \in InFlight : DownloadGetLink(s) \/ DownloadGetLinkFail(s))
    /\ WF_vars(\E s \in InFlight, ok \in BOOLEAN : DownloadDeactLimit(s, ok))
    /\ WF_vars(\E s \in InFlight, ok \in BOOLEAN : BkIncrement(s, ok))
    /\ WF_vars(\E s \in InFlight, ok \in BOOLEAN : BkDeactivate(s, ok))
    /\ WF_vars(\E s \in InFlight :
                  s.piped \notin {"initialRes", "fileRes"} /\ Finish(s))
    /\ WF_vars(\E s \in InFlight :
                  \/ Fetch2Error(s)
                  \/ Fetch2Timeout(s)
                  \/ \E st \in PipeStatuses, location \in Locations :
                        Fetch2Response(s, st, location, "application/zip"))
    /\ WF_vars(\E s \in InFlight :
                  s.piped = "fileRes" /\ (Fetch2Stall(s) \/ Fetch2Reset(s) \/ Finish(s)))

StallSpec == Init /\ [][StreamNext]_vars /\ StallFair

\* ReviveSpec: every operation on the link, one request at a time, on links
\* that downloads and the clock deactivate and that updates of the cap bring
\* back under their quota; reads succeed, the deactivating and reactivating
\* writes fail at will
ReviveNext ==
    \/ Flush
    \/ Idle /\ Tick
    \/ Idle /\ \E m \in {NULL} \cup 1..MaxCap, h \in HourInputs :
                  CreateStart("https://u.pcloud.link/p", m, h)
    \/ \E s \in InFlight : CreateInsert(s, TRUE)
    \/ Idle /\ DownloadStart
    \/ \E s \in InFlight : DownloadGetLink(s)
    \/ \E s \in InFlight, ok \in BOOLEAN : DownloadDeactExpired(s, ok)
    \/ \E s \in InFlight, ok \in BOOLEAN : DownloadDeactLimit(s, ok)
    \/ \E s \in InFlight : BkIncrement(s, TRUE)
    \/ \E s \in InFlight, ok \in BOOLEAN : BkDeactivate(s, ok)
    \/ \E s \in InFlight : Fetch1Response(s, 200, "application/zip", "")
    \/ Idle /\ \E body \in CapBodies \cup HourBodies : PutStart(body)
    \/ \E s \in InFlight : PutLoad(s, TRUE)
    \/ \E s \in InFlight : PutUpdate(s, TRUE)
    \/ \E s \in InFlight : PutGet(s, TRUE)
    \/ \E s \in InFlight : PutAbandon(s)
    \/ Idle /\ DeleteStart
    \/ \E s \in InFlight : DeleteRun(s, TRUE)
    \/ Idle /\ ResetStart
    \/ \E s \in InFlight, ok \in BOOLEAN : ResetUpdate(s, ok)
    \/ \E s \in InFlight : ResetGet(s, TRUE)
    \/ Idle /\ \E kind \in {"check", "refresh"} : ProbeStart(kind)
    \/ \E s \in InFlight : ProbeLoad(s, TRUE)
    \/ \E s \in InFlight, c \in ProbeInputs : ProbeResult(s, c)
    \/ \E s \in InFlight, ok \in BOOLEAN : ProbeUpdate(s, ok)
    \/ \E s \in InFlight : ProbeGet(s, TRUE)

ReviveSpec == Init /\ [][ReviveNext]_vars

\* UpdateSpec: updates of a link, one request at a time: PUT with every kind
\* of body, the empty one included, and db.updateLink called with field sets
\* that no handler builds
PutBodies  == {NoUpdates, [title |-> "report"]} \cup CapBodies \cup HourBodies \cup UrlBodies
UpdateSets == { NoUpdates, [id |-> "id2"], [id |-> "id2", isActive |-> 0],
                [isActive |-> 0], [title |-> "report"] }

UpdateNext ==
    \/ Flush
    \/ Idle /\ Tick
    \/ Idle /\ \E m \in CapInputs, h \in HourInputs :
                  CreateStart("http://files.example/f.zip", m, h)
    \/ \E s \in InFlight : CreateInsert(s, TRUE)
    \/ Idle /\ \E body \in PutBodies : PutStart(body)
    \/ \E s \in InFlight, ok \in BOOLEAN : PutLoad(s, ok)
    \/ \E s \in InFlight, ok \in BOOLEAN : PutUpdate(s, ok)
    \/ \E s \in InFlight, ok \in BOOLEAN : PutGet(s, ok)
    \/ \E s \in InFlight : PutAbandon(s)
    \/ Idle /\ DeleteStart
    \/ \E s \in InFlight : DeleteRun(s, TRUE)
    \/ Idle /\ \E updates \in UpdateSets, ok \in BOOLEAN : StoreUpdate(updates, ok)

UpdateSpec == Init /\ [][UpdateNext]_vars

\* ChainSpec: the update, reset and delete handlers followed to the end of
\* their promise chains, one request at a time, on existing and on missing
\* links, with the store's calls failing at will; a request is forgotten only
\* when its chain has ended
ChainNext ==
    \/ \E s \in InFlight : s.chain = "none" /\ Finish(s)
    \/ Idle /\ Tick
    \/ Idle /\ \E h \in HourInputs : CreateStart("http://files.example/f.zip", NULL, h)
    \/ \E s \in InFlight : CreateInsert(s, TRUE)
    \/ Idle /\ \E body \in PutBodies : PutStart(body)
    \/ \E s \in InFlight, ok \in BOOLEAN : PutLoad(s, ok)
    \/ \E s \in InFlight, ok \in BOOLEAN : PutUpdate(s, ok)
    \/ \E s \in InFlight, ok \in BOOLEAN : PutGet(s, ok)
    \/ \E s \in InFlight, ok \in BOOLEAN : PutLateGet(s, ok)
    \/ \E s \in InFlight : PutAbandon(s)
    \/ Idle /\ ResetStart
    \/ \E s \in InFlight, ok \in BOOLEAN : ResetUpdate(s, ok)
    \/ \E s \in InFlight, ok \in BOOLEAN : ResetGet(s, ok)
    \/ Idle /\ DeleteStart
    \/ \E s \in InFlight, ok \in BOOLEAN : DeleteRun(s, ok)

ChainSpec == Init /\ [][ChainNext]_vars

\* AnswerSpec: ChainSpec with what the code's scheduling guarantees: the
\* store settles every call, every .then and .catch of a settled promise
\* runs, and a written response goes out.  Nothing makes a client give up a
\* request that is left without an answer
AnswerFair ==
    /\ WF_vars(\E s \in InFlight : s.chain = "none" /\ Finish(s))
    /\ WF_vars(\E s \in InFlight : CreateInsert(s, TRUE))
    /\ WF_vars(\E s \in InFlight, ok \in BOOLEAN : PutLoad(s, ok))
    /\ WF_vars(\E s \in InFlight, ok \in BOOLEAN : PutUpdate(s, ok))
    /\ WF_vars(\E s \in InFlight, ok \in BOOLEAN : PutGet(s, ok))
    /\ WF_vars(\E s \in InFlight, ok \in BOOLEAN : PutLateGet(s, ok))
    /\ WF_vars(\E s \in InFlight, ok \in BOOLEAN : ResetUpdate(s, ok))
    /\ WF_vars(\E s \in InFlight, ok \in BOOLEAN : ResetGet(s, ok))
    /\ WF_vars(\E s \in InFlight, ok \in BOOLEAN : DeleteRun(s, ok))

AnswerSpec == Init /\ [][ChainNext]_vars /\ AnswerFair

\* UserSpec: the users table under deletions.  The accounts are created
\* and logged in one request at a time; delete requests then interleave at
\* will, each under the session its client sends
UserCredentials == { [username |-> "admin", password |-> "admin123"],
                     [username |-> "bob", password |-> "pw"] }

UserNext ==
    \/ Flush
    \/ Idle /\ ListenCallback
    \/ (\A s \in InFlight : s.kind = "userDelete")
          /\ \E id \in SessionIds : SetSessionId(id)
    \/ Idle /\ \E body \in UserCredentials : LoginStart(body)
    \/ \E s \in InFlight : LoginUser(s, TRUE)
    \/ \E s \in InFlight, id \in SessionIds : LoginCompare(s, id)
    \/ Idle /\ Len(users) < MaxUsers
            /\ \E r \in {"user", "admin"} :
                  UsersPostStart([username |-> "bob", password |-> "pw", role |-> r])
    \/ \E s \in InFlight : RequireAdmin(s, TRUE)
    \/ \E s \in InFlight : UsersPostExisting(s, TRUE)
    \/ \E s \in InFlight : UsersPostHash(s)
    \/ \E s \in InFlight : UsersPostCreate(s, TRUE)
    \/ \E id \in 1..MaxUsers : UserDeleteStart(id)
    \/ \E s \in InFlight, ok \in BOOLEAN : UserDeleteCount(s, ok)
    \/ \E s \in InFlight, ok \in BOOLEAN : UserDeleteRun(s, ok)

UserSpec == Init /\ [][UserNext]_vars

\* LedgerSpec: downloads of a link without expiry and resets of its counter
\* interleaving at will, every store call succeeding
LedgerNext ==
    \/ Flush
    \/ Upstream
    \/ Quiet /\ \E u \in UrlInputs, m \in CapInputs : CreateStart(u, m, NULL)
    \/ Quiet /\ DownloadStart
    \/ Quiet /\ ResetStart
    \/ Quiet /\ \E s \in InFlight : CreateInsert(s, TRUE)
    \/ Quiet /\ \E s \in InFlight : DownloadGetLink(s)
    \/ Quiet /\ \E s \in InFlight : DownloadDeactLimit(s, TRUE)
    \/ Quiet /\ \E s \in InFlight : BkIncrement(s, TRUE)
    \/ Quiet /\ \E s \in InFlight : BkDeactivate(s, TRUE)
    \/ Quiet /\ \E s \in InFlight : ResetUpdate(s, TRUE)
    \/ \E s \in InFlight : ResetGet(s, TRUE)

LedgerSpec == Init /\ [][LedgerNext]_vars

\* ------------------------------------------------------------------ claims
\* a copy of request s takes the step, and t is what it becomes
Stepped(s) == CopiesIn(s, req') < CopiesIn(s, req)
Became(t)  == CopiesIn(t, req') > CopiesIn(t, req)

\* the step is the download request s loading the link (db.getLink resolved)
\* and t is the request after the handler's checks
LoadStep(s, t) ==
    /\ s.kind = "download" /\ s.pc = "getLink"
    /\ Stepped(s) /\ Became(t)
    /\ ~(t.pc = "sent" /\ t.status = 500 /\ t.bk = "none")

CappedNoExpiry ==
    linkRow # NoRow /\ Truthy(linkRow.maxDownloads) /\ linkRow.expiresAt = NULL

Expired ==
    linkRow # NoRow /\ linkRow.expiresAt # NULL /\ now > linkRow.expiresAt

Inactive(s) == Respond(s, 400, "This link is no longer active")

C1_Counts ==
    CappedNoExpiry =>
        /\ admitted <= linkRow.maxDownloads
        /\ (Idle => linkRow.currentDownloads = admitted)
        /\ (linkRow.isActive = 0 => linkRow.currentDownloads >= linkRow.maxDownloads)

C1_Load ==
    \A s \in InFlight, t \in InFlight' :
        /\ (LoadStep(s, t) /\ CappedNoExpiry) =>
              IF linkRow.currentDownloads < linkRow.maxDownloads
              THEN admitted' = admitted + 1 /\ t.bk # "none" /\ t.pc = "fetch1"
              ELSE /\ admitted' = admitted
                   /\ IF linkRow.isActive = 1 THEN t = [s EXCEPT !.pc = "deactLimit"]
                                              ELSE t = Inactive(s)
        /\ (s.pc = "deactLimit" /\ Stepped(s) /\ Became(t)) =>
              t = Respond(s, 400, "Download limit reached")

C2_Original ==
    [][\A s \in InFlight, t \in InFlight' :
         /\ (LoadStep(s, t) /\ Expired) => t.pc = "deactExpired"
         /\ (s.pc = "deactExpired" /\ Stepped(s)) => linkRow'.isActive = 0]_vars

\* C2 amended: a request that loads a link after its expiresAt is never
\* admitted, whatever currentDownloads and maxDownloads are: if isActive is
\* still true it takes the EXPIRED branch, whose answer is 400 "This link has
\* expired" and whose deactivation either sets isActive false or fails and
\* leaves the row as it was; if isActive is already false it is answered 400
\* "This link is no longer active"
C2_ExpiredRejected ==
    [][\A s \in InFlight, t \in InFlight' :
         /\ (LoadStep(s, t) /\ Expired) =>
               /\ admitted' = admitted /\ linkRow' = linkRow
               /\ IF linkRow.isActive = 1 THEN t = [s EXCEPT !.pc = "deactExpired"]
                                          ELSE t = Inactive(s)
         /\ (s.pc = "deactExpired" /\ Stepped(s) /\ Became(t)) =>
               /\ t = Respond(s, 400, "This link has expired")
               /\ linkRow' \in {linkRow, deactivateLink(linkRow)}]_vars

\* C2 witness: an expired link has been deactivated by a request answered
\* "This link has expired"
C2_Witness ==
    /\ Expired /\ linkRow.isActive = 0
    /\ \E s \in InFlight : s.pc = "sent" /\ s.status = 400
                           /\ s.error = "This link has expired"

\* C3: a link created with neither maxDownloads nor expirationHours stays
\* active, and no download request for it takes a rejecting branch or is
\* answered 400, under any interleaving of downloads
C3_UnlimitedNeverRejected ==
    (linkRow # NoRow /\ ~Truthy(linkRow.maxDownloads) /\ linkRow.expiresAt = NULL) =>
        /\ linkRow.isActive = 1
        /\ \A s \in InFlight : s.kind = "download" =>
              s.status # 400 /\ s.pc \notin {"deactExpired", "deactLimit"}

\* C3 witness: an unlimited link has served several downloads and is serving
\* another
C3_Witness ==
    /\ linkRow # NoRow /\ ~Truthy(linkRow.maxDownloads) /\ linkRow.expiresAt = NULL
    /\ linkRow.currentDownloads >= 2
    /\ \E s \in InFlight : s.kind = "download" /\ s.pc = "sent" /\ s.status = 200

\* C4 as stated: every capped link has currentDownloads <= maxDownloads
C4_Original ==
    (linkRow # NoRow /\ Truthy(linkRow.maxDownloads)) =>
        linkRow.currentDownloads <= linkRow.maxDownloads

\* C4 amended: a capped link has currentDownloads <= maxDownloads as long as
\* no download was admitted while another admitted request's increment was
\* pending and no update has written maxDownloads, over creates, downloads,
\* resets and refreshes
C4_CountWithinCap ==
    (linkRow # NoRow /\ Truthy(linkRow.maxDownloads) /\ ~overlap /\ ~edited) =>
        linkRow.currentDownloads <= linkRow.maxDownloads

\* C4 witness: a link at its cap that a refresh has written, with neither an
\* overlapping admission nor an update of the cap
C4_Witness ==
    /\ linkRow # NoRow /\ Truthy(linkRow.maxDownloads) /\ ~overlap /\ ~edited
    /\ linkRow.currentDownloads = linkRow.maxDownloads
    /\ linkRow.lastChecked # NULL

\* C5: a download request that loads a link whose isActive is false is
\* answered 400 "This link is no longer active"; it changes no row, is not
\* admitted, fires no increment and issues no upstream fetch
C5_InactiveRejected ==
    [][\A s \in InFlight, t \in InFlight' :
         (LoadStep(s, t) /\ linkRow # NoRow /\ linkRow.isActive # 1) =>
            /\ t = Inactive(s)
            /\ t.bk = "none" /\ t.fetches = 0
            /\ linkRow' = linkRow /\ admitted' = admitted]_vars

\* C5 witness: a request for an inactive link has been answered by the
\* isActive check
C5_Witness ==
    /\ linkRow # NoRow /\ linkRow.isActive = 0
    /\ \E s \in InFlight : s.kind = "download" /\ s.pc = "sent" /\ s.status = 400
                           /\ s.error = "This link is no longer active"

\* C6 as stated: no operation changes the expiresAt of an existing link
C6_Original ==
    [][(linkRow # NoRow /\ linkRow' # NoRow)
          => linkRow'.expiresAt = linkRow.expiresAt]_vars

\* C6 amended: the expiresAt of an existing link is changed by no download,
\* reset, check or refresh, and by no update without expirationHours or with
\* expirationHours null; the one step that changes it is the write of an
\* update whose expirationHours is not null, which sets it to
\* createdAt + expirationHours
C6_ExpiresAtFrame ==
    [][(linkRow # NoRow /\ linkRow' # NoRow /\ linkRow'.expiresAt # linkRow.expiresAt) =>
          \E s \in InFlight :
             /\ s.kind = "put" /\ s.pc = "putUpdate" /\ Stepped(s)
             /\ "expirationHours" \in DOMAIN s.updates
             /\ s.updates.expirationHours # NULL
             /\ linkRow'.expiresAt = linkRow.createdAt + s.updates.expirationHours]_vars

\* C6 witness: an update with expirationHours 0 has given the link an
\* expiresAt, which the create handler never does for 0
C6_Witness ==
    /\ linkRow # NoRow
    /\ linkRow.expirationHours = 0 /\ linkRow.expiresAt = linkRow.createdAt

\* C7 as stated: the write of a refresh never turns isActive on for a link
\* that is, in the state the write produces, expired or at its quota
C7_Original ==
    [][\A s \in InFlight :
         (/\ s.kind = "refresh" /\ s.pc = "probeUpdate" /\ Stepped(s)
          /\ linkRow # NoRow /\ linkRow' # NoRow
          /\ linkRow.isActive = 0 /\ linkRow'.isActive = 1)
            => /\ ~LimitReached(getLink(linkRow'))
               /\ ~(linkRow'.expiresAt # NULL /\ now' > linkRow'.expiresAt)]_vars

\* C8 as stated: a reset that has written its update never leaves isActive
\* true on a link whose expiresAt is in the past
C8_Original ==
    [][\A s \in InFlight, t \in InFlight' :
         (/\ s.kind = "reset" /\ s.pc = "resetUpdate" /\ Stepped(s)
          /\ Became(t) /\ t.pc = "resetGet" /\ Expired)
            => linkRow'.isActive # 1]_vars

\* C8 amended: a reset that finds the row writes currentDownloads 0 and
\* isActive true and nothing else, whether or not expiresAt is in the past;
\* the expiry still holds at the next download: a request that loads the
\* link after expiresAt is not admitted, fires no increment and issues no
\* upstream fetch
C8_ResetThenExpiry ==
    [][\A s \in InFlight, t \in InFlight' :
         /\ (/\ s.kind = "reset" /\ s.pc = "resetUpdate" /\ Stepped(s)
             /\ Became(t) /\ t.pc = "resetGet") =>
               linkRow' = [linkRow EXCEPT !.currentDownloads = 0, !.isActive = 1]
         /\ (LoadStep(s, t) /\ Expired) =>
               /\ admitted' = admitted /\ linkRow' = linkRow
               /\ t.bk = "none" /\ t.fetches = 0
               /\ t.pc = "deactExpired" \/ t = Inactive(s)]_vars

\* C8 witness: a reset has answered 200 and left an expired link active
C8_Witness ==
    /\ Expired /\ linkRow.isActive = 1 /\ linkRow.currentDownloads = 0
    /\ \E s \in InFlight : s.kind = "reset" /\ s.pc = "sent" /\ s.status = 200

\* the second upstream fetch of a download answered, and not with a redirect
\* that the handler passes on
RelayedSecond(s) ==
    /\ s.kind = "download" /\ s.pc = "sent" /\ s.up2 # 0
    /\ ~(s.status = 302 /\ s.error = "")

\* C9 as stated: every answer of the download endpoint is a 200, a redirect
\* or an error with status 404, 400 or 500, and an upstream status of the
\* second fetch outside 2xx that is no redirect is answered as a 500
C9_Original ==
    \A s \in InFlight : (s.kind = "download" /\ s.pc = "sent") =>
        /\ s.status \in {200, 302, 400, 404, 500}
        /\ (RelayedSecond(s) /\ ~(s.up2 >= 200 /\ s.up2 < 300)) => s.status = 500

\* C9 amended: every answer of the download endpoint is a 200, a 302
\* redirect, an error with status 404, 400 or 500, or - when the second
\* fetch answers with a status other than 200 that is not a redirect with a
\* location - an error carrying that upstream status itself
C9_Statuses ==
    \A s \in InFlight : (s.kind = "download" /\ s.pc = "sent") =>
        /\ \/ s.status \in {200, 302, 400, 404, 500}
           \/ s.up2 # 200 /\ s.status = s.up2
        /\ RelayedSecond(s) =>
              IF s.up2 = 200 THEN s.status = 200 /\ s.error = ""
              ELSE s.status = s.up2 /\ s.error = "Failed to fetch file: <status>"

\* C9 witness: the second fetch answered 503 and the client is answered 503
C9_Witness ==
    \E s \in InFlight : RelayedSecond(s) /\ s.up2 = 503 /\ s.status = 503

\* C10: a bookkeeping write of an admitted request - the increment or the
\* deactivation that follows it, succeeding or failing - changes nothing of
\* the request's answer and position, and a request that is through leaves
\* with the answer it had; the answer is produced while writes are pending
C10_BookkeepingDetached ==
    [][\A s \in InFlight :
         (s.kind = "download" /\ s.bk # "none" /\ Stepped(s)) =>
            \/ \E t \in InFlight' :
                  /\ Became(t)
                  /\ \/ t.bk = s.bk
                     \/ t = [s EXCEPT !.bk = t.bk]
            \/ req' = req (-) One(s) /\ s.pc = "done"]_vars

\* C10 witness: the answer is out while the increment is still pending
C10_Witness ==
    \E s \in InFlight : s.kind = "download" /\ s.pc = "sent" /\ s.status = 200
                        /\ s.bk = "incThenDeact"

\* C11: admission looks only at the row as loaded, never at increments that
\* are fired and pending: a request that loads an active, unexpired link
\* whose currentDownloads is below maxDownloads is admitted and fires its own
\* increment, so two requests that both load a link with maxDownloads = N
\* and currentDownloads = N - 1 before either increment is applied are both
\* served and leave currentDownloads = N + 1
C11_AdmitsOnLoadedRow ==
    [][\A s \in InFlight, t \in InFlight' :
         (/\ LoadStep(s, t) /\ linkRow # NoRow /\ linkRow.isActive = 1
          /\ ~Expired /\ ~LimitReached(getLink(linkRow)))
            => /\ t.bk \in {"inc", "incThenDeact"}
               /\ admitted' = admitted + 1]_vars

\* C11 witness: a capped link counts one download more than its cap after two
\* overlapping admissions, both requests answered
C11_Witness ==
    /\ linkRow # NoRow /\ Truthy(linkRow.maxDownloads) /\ overlap /\ ~edited
    /\ linkRow.currentDownloads = linkRow.maxDownloads + 1
    /\ admitted = linkRow.maxDownloads + 1
    /\ Idle

\* the columns that record the outcome of the reachability probe
ProbeColumns == {"isValid", "lastChecked", "statusCode", "error"}

\* C12: isValid, lastChecked, statusCode and error of an existing link are
\* changed only by the write of a check or of a refresh; no step of a
\* download request, and no create, update, reset or delete, changes them
C12_ProbeColumnsFrame ==
    [][(/\ linkRow # NoRow /\ linkRow' # NoRow
        /\ \E k \in ProbeColumns : linkRow'[k] # linkRow[k])
          => \E s \in InFlight :
                /\ s.kind \in {"check", "refresh"} /\ s.pc = "probeUpdate"
                /\ Stepped(s)
                /\ \A k \in ProbeColumns : linkRow'[k] = s.updates[k]]_vars

\* C12 witness: a probe has marked the link invalid, and a download request
\* answered afterwards has left the probe's columns as they were written
C12_Witness ==
    /\ linkRow # NoRow /\ linkRow.isValid = 0 /\ linkRow.lastChecked # NULL
    /\ linkRow.error = "connect error" /\ linkRow.currentDownloads > 0
    /\ \E s \in InFlight : s.kind = "download" /\ s.pc = "sent" /\ s.status = 200

\* C13 as stated: currentDownloads is incremented only for downloads that are
\* served; a request that is answered with an error leaves it unchanged
C13_Original ==
    [][\A s \in InFlight :
         (/\ s.kind = "download" /\ Stepped(s)
          /\ linkRow # NoRow /\ linkRow' # NoRow
          /\ linkRow'.currentDownloads # linkRow.currentDownloads)
            => ~(s.pc = "sent" /\ s.status >= 400)]_vars

C13_Range ==
    linkRow # NoRow =>
        /\ linkRow.currentDownloads >= 0
        /\ linkRow.currentDownloads <= admitted

C13_Steps ==
    /\ (linkRow = NoRow /\ linkRow' # NoRow) => linkRow'.currentDownloads = 0
    /\ (/\ linkRow # NoRow /\ linkRow' # NoRow
        /\ linkRow'.currentDownloads # linkRow.currentDownloads) =>
           /\ linkRow'.currentDownloads = linkRow.currentDownloads + 1
           /\ \E s \in InFlight :
                 /\ s.kind = "download" /\ s.bk \in {"inc", "incThenDeact"}
                 /\ Stepped(s)
    /\ \A s \in InFlight, t \in InFlight' :
          LoadStep(s, t) =>
             /\ (t.bk \in {"inc", "incThenDeact"}) = (admitted' = admitted + 1)
             /\ (t.bk = "none") = (admitted' = admitted)
             /\ (t.status \in {400, 404} \/ t.pc \in {"deactExpired", "deactLimit"})
                   => t.bk = "none"

\* C13 amended: over creations and downloads, currentDownloads is 0 at
\* creation, never negative, and changes only by the increment that an
\* admitted request fires, by exactly one and at most once per admitted
\* request; the increment is fired at admission, before the upstream fetch,
\* so it counts the request whatever its answer turns out to be (a 500 for an
\* unparsable URL or a failed fetch included); a request rejected by the
\* lifecycle checks or failing to load the link fires none
C13_CountsAdmitted == [](C13_Range) /\ [][C13_Steps]_vars

\* C13 witness: the only admitted request was answered 500 after its first
\* fetch failed, and the counter stands at 1
C13_Witness ==
    /\ linkRow # NoRow /\ linkRow.currentDownloads = 1 /\ admitted = 1
    /\ \E s \in InFlight :
          /\ s.kind = "download" /\ s.pc = "sent" /\ s.status = 500
          /\ s.error = "Failed to fetch file" /\ s.fetches = 1 /\ s.bk = "none"

\* the link-management routes
LinkRoutes == {"create", "get", "list", "put", "delete", "reset", "check", "refresh"}

\* the step is the arrival of a request, and t is the request after the
\* synchronous part of its route
Arrives(t) == Became(t) /\ BagCardinality(req') = BagCardinality(req) + 1

\* C14: a download request enters its handler whatever session id it
\* carries; a request to a link-management route (create, get, list, update,
\* delete, reset, check, refresh) enters its handler only when its session id
\* is in the session map, and is otherwise answered 401 at once, with no store
\* call issued and no row changed; the session map gains an id only when a
\* login's password comparison succeeds and loses one only by the logout of
\* that id
C14_SessionGate ==
    [][/\ \A t \in InFlight' : Arrives(t) =>
            /\ t.kind = "download" => t = New("download", "getLink")
            /\ t.kind \in LinkRoutes =>
                  IF sessionId \in DOMAIN sessions
                  THEN t.status # 401
                  ELSE /\ t = Respond(New(t.kind, "start"), 401, "Authentication required")
                       /\ linkRow' = linkRow /\ uuidUsed' = uuidUsed
       /\ \A s \in InFlight :
            (Stepped(s) /\ s.status = 401) => (linkRow' = linkRow /\ s.pc = "sent")
       /\ sessions' # sessions =>
            \/ \E s \in InFlight, id \in SessionIds \ DOMAIN sessions :
                  /\ s.kind = "login" /\ s.pc = "compare" /\ Stepped(s)
                  /\ compare(s.body.password, getUserById(s.session).password)
                  /\ sessions' = (id :> s.session) @@ sessions
            \/ \E t \in InFlight' :
                  /\ Arrives(t) /\ t.kind = "logout"
                  /\ sessionId \in DOMAIN sessions
                  /\ DOMAIN sessions' = DOMAIN sessions \ {sessionId}
                  /\ \A k \in DOMAIN sessions' : sessions'[k] = sessions[k]]_vars

\* C14 witness: while a session is open, a request to a link-management
\* route carrying another session id has been answered 401, and the link and
\* its count of served downloads stand
C14_Witness ==
    /\ sessions # NoSessions /\ sessionId # "" /\ sessionId \notin DOMAIN sessions
    /\ linkRow # NoRow /\ linkRow.currentDownloads > 0
    /\ \E s \in InFlight : s.kind \in LinkRoutes /\ s.pc = "sent" /\ s.status = 401

\* a POST /api/users request past requireAdmin holds an administrator's id
C19_PastGate ==
    \A s \in InFlight :
        (s.kind = "users" /\ s.pc \in {"existingUser", "hash", "createUser"}) =>
            /\ getUserById(s.session) # NoRow
            /\ getUserById(s.session).role = "admin"

C19_Steps ==
    /\ \A t \in InFlight' : (Arrives(t) /\ t.kind = "users") =>
          /\ users' = users
          /\ IF sessionId \in DOMAIN sessions
             THEN t.pc = "adminUser" /\ t.session = sessions[sessionId]
             ELSE t = Respond(New("users", "start"), 401, "Authentication required")
    /\ \A s \in InFlight, t \in InFlight' :
          (/\ s.kind = "users" /\ s.pc = "adminUser" /\ Stepped(s) /\ Became(t)
           /\ \/ getUserById(s.session) = NoRow
              \/ getUserById(s.session).role # "admin") =>
             /\ users' = users
             /\ \/ t = Respond(s, 403, "Admin access required")
                \/ t = Respond(s, 500, "Internal server error")
    /\ (users' # users /\ users # <<>>) =>
          \E s \in InFlight :
             /\ s.kind = "users" /\ s.pc = "createUser" /\ Stepped(s)
             /\ getUserById(s.session).role = "admin"
             /\ users' = Append(users, s.body)

\* C19: POST /api/users adds a user only for a request whose session id is in
\* the session map and belongs to a user with the admin role; without such a
\* session id the answer is 401, with the session of a user who is no admin
\* it is 403 (500 if the lookup of the user fails), and in these cases the
\* users table is unchanged
C19_AdminCreatesUsers == [](C19_PastGate) /\ [][C19_Steps]_vars

\* C19 witness: a user without the admin role, logged in, has asked for a new
\* user and has been answered 403
C19_Witness ==
    \E s \in InFlight :
       /\ s.kind = "users" /\ s.pc = "sent" /\ s.status = 403
       /\ s.session \in DOMAIN users /\ users[s.session].role = "user"
       /\ sessionId \in DOMAIN sessions /\ sessions[sessionId] = s.session
       /\ Len(users) = 2

\* C15 as stated: every 200 answer of the download endpoint carries a
\* Content-Disposition and a Content-Type header, and when the first upstream
\* response is piped its filename is the one parsed from the upstream
\* Content-Disposition if there is one, the URL's otherwise
C15_Original ==
    \A s \in InFlight : (s.kind = "download" /\ s.pc = "sent" /\ s.status = 200) =>
        /\ s.contentType # ""
        /\ s.contentDisposition # NoHeader
        /\ s.piped = "initialRes" =>
              \/ s.contentDisposition = Attachment(UrlFilename(s.link.originalUrl))
              \/ \E cd \in PipeDispositions :
                    /\ ParsedFilename(cd) # ""
                    /\ s.contentDisposition = Attachment(<<ParsedFilename(cd)>>)

\* what a download request that went to the second fetch can answer with:
\* the second response under the filename chosen at the dispatch, or an
\* error or redirect without body; what one that did not can answer with
C16_Answers ==
    \A s \in InFlight : (s.kind = "download" /\ s.pc = "sent") =>
        /\ s.fetches = 2 =>
              /\ s.piped \in {"none", "fileRes"}
              /\ (s.status = 200) = (s.piped = "fileRes")
              /\ s.contentDisposition \in
                    { Attachment(<<MetadataName>>),
                      Attachment(UrlFilename(s.link.originalUrl)) }
        /\ s.piped = "htmlContent" =>
              /\ s.fetches = 1 /\ s.status = 200 /\ s.contentType = "text/html"
              /\ s.contentDisposition =
                    Attachment(Append(UrlFilename(s.link.originalUrl), ".html"))

C16_Dispatch ==
    \A s \in InFlight : (s.pc = "buffer" /\ Stepped(s)) => \A page \in Pages :
        Fetch1End(s, page) =>
            LET info     == extractPcloudInfo(page, s.link.originalUrl)
                fallback == UrlFilename(s.link.originalUrl)
            IN  \E t \in InFlight' :
                   /\ Became(t)
                   /\ IF info # NoInfo /\ info.downloadLink
                      THEN /\ t.pc = "fetch2" /\ t.fetches = 2 /\ t.piped = "none"
                           /\ t.contentDisposition =
                                 Attachment(IF info.filename THEN <<MetadataName>>
                                                             ELSE fallback)
                      ELSE /\ t.pc = "sent" /\ t.status = 200 /\ t.fetches = 1
                           /\ t.piped = "htmlContent"
                           /\ t.contentType = "text/html"
                           /\ t.contentDisposition =
                                 Attachment(Append(fallback, ".html"))

\* C16: when the first response is classified HTML and its page is buffered,
\* the second fetch is issued exactly when the extractor returns a download
\* link; the answer is then the second response under the extracted filename
\* (the fallback filename when none was extracted), or an error or redirect,
\* and never the landing page; otherwise no second fetch is issued and the
\* buffered HTML is sent with filename "<fallback>.html" and Content-Type
\* text/html
C16_HtmlDispatch == [](C16_Answers) /\ [][C16_Dispatch]_vars

\* C16 witness: the second response is being sent under the extracted
\* filename
C16_Witness ==
    \E s \in InFlight :
       /\ s.kind = "download" /\ s.pc = "sent" /\ s.status = 200
       /\ s.fetches = 2 /\ s.piped = "fileRes"
       /\ s.contentDisposition = Attachment(<<MetadataName>>)

\* C17: the first response is taken for HTML, and buffered, exactly when it
\* has a Content-Type header that contains text/html; every other response,
\* one without the header included, is taken for a file and piped with
\* status 200, whatever the upstream status and the other headers
C17_Classifier ==
    [][\A s \in InFlight :
         (s.kind = "download" /\ s.pc = "fetch1" /\ Stepped(s)) =>
            \A st \in PipeStatuses, ct \in PipeTypes, cd \in PipeDispositions :
               Fetch1Response(s, st, ct, cd) =>
                  \E t \in InFlight' :
                     /\ Became(t) /\ t.up1 = st /\ t.fetches = 1
                     /\ IF ct \in {"text/html", "text/html; charset=utf-8"}
                        THEN t.pc = "buffer" /\ t.piped = "none"
                        ELSE /\ t.pc = "sent" /\ t.status = 200
                             /\ t.piped = "initialRes"]_vars

\* C17 witness: a first response without Content-Type, and with status 404,
\* is being piped as a file
C17_Witness ==
    \E s \in InFlight :
       /\ s.kind = "download" /\ s.pc = "sent" /\ s.status = 200
       /\ s.piped = "initialRes" /\ s.up1 = 404
       /\ s.contentType = "application/octet-stream"

\* C18: the extractor yields a download link exactly when the URL is the
\* provider's and the first script block that holds the marker also holds a
\* downloadlink field; the result is that of the page cut after its first
\* marker block, so later blocks change nothing; and with no link yielded no
\* second fetch is issued
C18_FirstMarkerDecides ==
    [][\A s \in InFlight :
         (s.kind = "download" /\ s.pc = "buffer" /\ Stepped(s)) =>
            \A page \in Pages :
               Fetch1End(s, page) =>
                  LET markers == { i \in 1..Len(page) : page[i].publinkData }
                      first   == CHOOSE i \in markers : \A j \in markers : i <= j
                      yields  == /\ s.link.originalUrl = "https://u.pcloud.link/p"
                                 /\ markers # {}
                                 /\ page[first].downloadlink
                      info    == extractPcloudInfo(page, s.link.originalUrl)
                  IN  /\ (info # NoInfo /\ info.downloadLink) = yields
                      /\ (\E t \in InFlight' : Became(t) /\ t.pc = "fetch2") = yields
                      /\ markers # {} =>
                            extractPcloudInfo(SubSeq(page, 1, first),
                                              s.link.originalUrl) = info]_vars

\* C18 witness: a page fetched from the provider's URL gave no download link
\* and is being sent as it is
C18_Witness ==
    \E s \in InFlight :
       /\ s.kind = "download" /\ s.pc = "sent" /\ s.piped = "htmlContent"
       /\ s.link.originalUrl = "https://u.pcloud.link/p"

\* C20 as stated: every stored link has a non-empty originalUrl
C20_Original ==
    linkRow # NoRow => linkRow.originalUrl # ""

\* the error messages of the four lifecycle rejections
LifecycleErrors ==
    {"Link not found", "This link is no longer active", "This link has expired",
     "Download limit reached"}

\* C21: the download handler tests not-found, inactive, expired and
\* limit-reached in this order and the first test that fails decides the
\* outcome; a request rejected as not found or inactive writes nothing to the
\* store, and one rejected as expired or limit-reached writes nothing but
\* isActive = false (or nothing, when that write fails) and never changes
\* currentDownloads
C21_OrderedChecks ==
    [][\A s \in InFlight, t \in InFlight' :
         /\ LoadStep(s, t) =>
               /\ linkRow' = linkRow
               /\ IF linkRow = NoRow
                  THEN t = Respond(s, 404, "Link not found")
                  ELSE IF linkRow.isActive # 1
                  THEN t = Inactive(s)
                  ELSE IF Expired
                  THEN t = [s EXCEPT !.pc = "deactExpired"]
                  ELSE IF LimitReached(getLink(linkRow))
                  THEN t = [s EXCEPT !.pc = "deactLimit"]
                  ELSE t.bk \in {"inc", "incThenDeact"}
         /\ (/\ s.kind = "download" /\ s.pc \in {"deactExpired", "deactLimit"}
             /\ Stepped(s) /\ Became(t)) =>
               /\ t.pc = "sent" /\ t.status = 400 /\ t.bk = "none" /\ t.fetches = 0
               /\ \/ linkRow' = linkRow
                  \/ linkRow # NoRow /\ linkRow' = [linkRow EXCEPT !.isActive = 0]
         /\ (/\ s.kind = "download" /\ s.pc = "sent" /\ s.error \in LifecycleErrors
             /\ Stepped(s)) =>
               linkRow' = linkRow /\ s.bk = "none" /\ s.fetches = 0]_vars

\* C21 witness: a link that is both past its expiresAt and at its quota has
\* been rejected as expired, and the rejection has written isActive = false
\* and left currentDownloads where it was
C21_Witness ==
    /\ Expired /\ LimitReached(getLink(linkRow)) /\ linkRow.isActive = 0
    /\ linkRow.currentDownloads = linkRow.maxDownloads
    /\ \E s \in InFlight : s.kind = "download" /\ s.pc = "sent" /\ s.status = 400
                           /\ s.error = "This link has expired"

\* the message of the rejection whose deactivation request s waits for
Rejection(s) ==
    IF s.pc = "deactExpired" THEN "This link has expired"
                            ELSE "Download limit reached"

\* C22: a request rejected as expired or limit-reached is answered only
\* when its deactivation write has settled - it has no response while the
\* write is pending, and the two messages are sent by no other step - and
\* the answer is the same 400 with the same message whether the write
\* changed the row or failed
C22_AnswerAfterDeactivation ==
    /\ [](\A s \in InFlight :
            (s.kind = "download" /\ s.pc \in {"deactExpired", "deactLimit"}) =>
                s.status = 0 /\ s.error = "")
    /\ [][\A t \in InFlight' :
            /\ (/\ Became(t) /\ t.kind = "download" /\ t.pc = "sent"
                /\ t.error \in {"This link has expired", "Download limit reached"}) =>
                  \E s \in InFlight :
                     /\ s.pc \in {"deactExpired", "deactLimit"} /\ Stepped(s)
                     /\ t = Respond(s, 400, Rejection(s))
            /\ \A s \in InFlight :
                  (/\ s.kind = "download" /\ s.pc \in {"deactExpired", "deactLimit"}
                   /\ Stepped(s) /\ Became(t)) =>
                     /\ t = Respond(s, 400, Rejection(s))
                     /\ linkRow' \in {linkRow, deactivateLink(linkRow)}]_vars

\* C22 witness: a request has been answered "Download limit reached" although
\* its deactivation failed: the link is still active at its quota
C22_Witness ==
    /\ linkRow # NoRow /\ linkRow.isActive = 1 /\ LimitReached(getLink(linkRow))
    /\ ~Expired
    /\ \E s \in InFlight : s.kind = "download" /\ s.pc = "sent" /\ s.status = 400
                           /\ s.error = "Download limit reached"

\* C23 as stated: with no download request in flight and every bookkeeping
\* write succeeded, a link whose currentDownloads has reached maxDownloads is
\* inactive, whatever the interleaving of the downloads that counted
C23_Original ==
    (/\ linkRow # NoRow /\ Truthy(linkRow.maxDownloads)
     /\ linkRow.currentDownloads >= linkRow.maxDownloads
     /\ \A s \in InFlight : s.kind # "download")
        => linkRow.isActive = 0

\* the step is the 'error' event of an upstream request of s, before or
\* after its response
UpstreamError(s) ==
    Fetch1Error(s) \/ Fetch1Reset(s) \/ Fetch2Error(s) \/ Fetch2Reset(s)

\* C24: on a connection error of the first or of the second upstream fetch
\* the client is answered 500 with the JSON error "Failed to fetch file" if
\* the response headers have not been sent; if they have been sent, neither
\* a status nor an error payload nor a second head is written
C24_ErrorAnswer ==
    [][\A s \in InFlight :
         UpstreamError(s) =>
            IF ~headersSent(s)
            THEN \E t \in InFlight' :
                    /\ Became(t) /\ t.pc = "sent" /\ t.heads = 1
                    /\ t.status = 500 /\ t.error = "Failed to fetch file"
            ELSE \A t \in InFlight' :
                    /\ t.heads = s.heads
                    /\ t.status = s.status /\ t.error = s.error]_vars

\* C24 witness: the connection broke while a file was being piped with its
\* headers out, and the response is still the 200 it was
C24_Witness ==
    \E s \in InFlight :
       /\ s.kind = "download" /\ s.pc = "sent" /\ s.piped = "aborted"
       /\ s.status = 200 /\ s.error = "" /\ s.heads = 1

\* C25: whatever the order of the upstream events and of the store's
\* answers, a download request has its status line and headers written at
\* most once, and once they are written no step changes the status or the
\* payload of the response
C25_OneHead ==
    /\ [](\A s \in InFlight : s.kind = "download" => s.heads <= 1)
    /\ [][\A s \in InFlight, t \in InFlight' :
            (/\ s.kind = "download" /\ headersSent(s)
             /\ Stepped(s) /\ Became(t) /\ t.pc # "done") =>
               /\ t.heads = s.heads
               /\ t.status = s.status /\ t.error = s.error]_vars

\* C25 witness: the second fetch answered 200 and was piped, stalled before
\* its first chunk, and the timeout has written the one head of the response
C25_Witness ==
    \E s \in InFlight :
       /\ s.kind = "download" /\ s.pc = "sent" /\ s.up2 = 200
       /\ s.piped = "aborted" /\ s.heads = 1
       /\ s.status = 500 /\ s.error = "Request timeout"

\* the response of s is finalized (written whole, or complete and gone) or
\* its stream is terminated: no source is still being piped into it
Settled(s) ==
    s.pc \in {"sent", "done"} /\ s.piped \notin {"initialRes", "fileRes"}

\* C26 as stated: the fetch that delivers the binary, the first fetch of
\* originalUrl included, is cut off after 30 s without activity, so that every
\* download request that passed the lifecycle checks eventually has its
\* response finalized or its stream terminated, even when the upstream stalls
C26_Original ==
    (\E s \in InFlight : s.kind = "download" /\ s.pc = "fetch1")
        ~> (\A s \in InFlight : s.kind = "download" => Settled(s))

\* C27: when the second fetch answers with a 3xx status and a Location
\* header, the client is answered with a redirect to that location and no
\* further upstream GET is issued, at that step or after it; a download
\* request issues at most two upstream GETs
C27_RedirectNotFollowed ==
    /\ [](\A s \in InFlight : s.kind = "download" => s.fetches <= 2)
    /\ [][\A s \in InFlight :
            /\ \A st \in {x \in PipeStatuses : x >= 300 /\ x < 400},
                  location \in Locations \ {""} :
                  Fetch2Response(s, st, location, "application/zip") =>
                     \E t \in InFlight' :
                        /\ Became(t) /\ t.pc = "sent" /\ t.heads = 1
                        /\ t.status = 302 /\ t.location = location
                        /\ t.fetches = 2 /\ t.piped = "none"
            /\ \A t \in InFlight' :
                  (/\ s.kind = "download" /\ s.pc = "sent" /\ s.status = 302
                   /\ Stepped(s) /\ Became(t) /\ t.pc # "done") =>
                     /\ t.fetches = s.fetches /\ t.location = s.location
                     /\ t.status = 302]_vars

\* C27 witness: the extracted link answered 301 with a Location and the
\* client has been redirected there after two upstream GETs
C27_Witness ==
    \E s \in InFlight :
       /\ s.kind = "download" /\ s.pc = "sent" /\ s.up2 = 301
       /\ s.status = 302 /\ s.location = "https://cdn.example/f.zip"
       /\ s.fetches = 2

\* C28: isActive of an existing link goes from false to true only by the
\* write of a reset, or by the write of a refresh whose probe found the link
\* valid and whose loaded link was, when the probe answered, neither past
\* its expiresAt nor at its quota; no step of a download, a check, an update
\* or a delete turns isActive on
C28_Reactivation ==
    [][/\ (/\ linkRow # NoRow /\ linkRow' # NoRow
           /\ linkRow.isActive = 0 /\ linkRow'.isActive = 1) =>
             \E s \in InFlight :
                /\ Stepped(s)
                /\ \/ s.kind = "reset" /\ s.pc = "resetUpdate"
                   \/ /\ s.kind = "refresh" /\ s.pc = "probeUpdate"
                      /\ s.updates.isValid = 1 /\ "isActive" \in DOMAIN s.updates
       /\ \A s \in InFlight, t \in InFlight' :
             /\ (/\ s.kind = "refresh" /\ s.pc = "probeLoad"
                 /\ Stepped(s) /\ Became(t) /\ t.pc = "probe") =>
                   /\ t.link.expiresAt = linkRow.expiresAt
                   /\ t.link.isLimitReached = LimitReached(getLink(linkRow))
             /\ (/\ s.kind = "refresh" /\ s.pc = "probe"
                 /\ Stepped(s) /\ Became(t)) =>
                   ("isActive" \in DOMAIN t.updates) =
                      (/\ t.updates.isValid = 1
                       /\ ~(s.link.expiresAt # NULL /\ now > s.link.expiresAt)
                       /\ ~s.link.isLimitReached)
             /\ (/\ s.kind \in {"download", "check", "put", "delete"}
                 /\ Stepped(s) /\ linkRow # NoRow /\ linkRow' # NoRow) =>
                   (linkRow'.isActive = 1 => linkRow.isActive = 1)]_vars

\* C28 witness: a refresh of an inactive link whose cap an update has raised
\* above its count has found it valid and is about to write isActive = 1
C28_Witness ==
    /\ linkRow # NoRow /\ linkRow.isActive = 0
    /\ Truthy(linkRow.maxDownloads) /\ linkRow.currentDownloads < linkRow.maxDownloads
    /\ \E s \in InFlight :
          /\ s.kind = "refresh" /\ s.pc = "probeUpdate"
          /\ "isActive" \in DOMAIN s.updates

\* C29: updateLink called with no field, or with id alone, resolves with
\* changes 0 and leaves the row as it is - as a call of its own and as the
\* call of an update request whose body names no field - and no step changes
\* the id of an existing link, whatever field set updateLink is given
C29_EmptyUpdate ==
    [][/\ \A t \in InFlight' :
             (/\ Became(t) /\ t.kind = "updateLink"
              /\ DOMAIN t.updates \subseteq {"id"}) =>
                /\ linkRow' = linkRow
                /\ t.error = "" /\ t.status = 0
       /\ \A s \in InFlight :
             (/\ s.kind = "put" /\ s.pc = "putUpdate" /\ Stepped(s)
              /\ DOMAIN s.updates \subseteq {"id"}) =>
                /\ linkRow' = linkRow
                /\ \A t \in InFlight' : Became(t) => t.status # 500
       /\ (linkRow # NoRow /\ linkRow' # NoRow) => linkRow'.id = linkRow.id]_vars

\* C29 witness: updateLink has been called on an existing link with a field
\* set holding another id, and has resolved with the row's id as it was
C29_Witness ==
    /\ linkRow # NoRow /\ linkRow.id = LinkId
    /\ \E s \in InFlight :
          /\ s.kind = "updateLink" /\ s.error = "" /\ s.status = 0
          /\ "id" \in DOMAIN s.updates /\ s.updates.id # linkRow.id

\* C30 as stated: an update request is answered 404 "Link not found" only
\* when no link with the id exists; for an existing link a body naming none
\* of title, originalUrl, maxDownloads, expirationHours is not answered 404
C30_Original ==
    [][\A s \in InFlight, t \in InFlight' :
         (/\ s.kind = "put" /\ Stepped(s) /\ Became(t)
          /\ t.pc = "sent" /\ t.status = 404 /\ t.error = "Link not found")
            => linkRow = NoRow]_vars

\* C31 as stated: every update request is eventually answered, whatever
\* fields its body holds, expirationHours = null included
C31_Original ==
    (\E s \in InFlight : s.kind = "put" /\ s.pc \notin {"sent", "done"})
        ~> (\E s \in InFlight : s.kind = "put" /\ s.pc = "sent")

\* C32 as stated: an update or reset request sends at most one response;
\* once it has answered 404 for a missing link, no later step of its promise
\* chain calls res.json again
C32_Original ==
    \A s \in InFlight : s.kind \in {"put", "reset"} => s.sends <= 1

\* C33 as stated: no step of a delete request empties the users table, and
\* no step deletes the record of the user under whose session the request
\* was made, however concurrent delete requests interleave
C33_Original ==
    [][/\ getAllUsers # {} => { i \in DOMAIN users' : users'[i] # NoRow } # {}
       /\ \A s \in InFlight :
             (s.kind = "userDelete" /\ Stepped(s) /\ s.session \in getAllUsers)
                => users'[s.session] # NoRow]_vars

\* C34: while download requests are served strictly one after the other with
\* the increment written, and nothing but downloads touches the link, a link
\* with maxDownloads = N has admitted at most N requests past the lifecycle
\* checks, and its currentDownloads never exceeds N nor the number admitted
C34_SequentialCap ==
    (linkRow # NoRow /\ Truthy(linkRow.maxDownloads)) =>
        /\ admitted <= linkRow.maxDownloads
        /\ linkRow.currentDownloads <= admitted
        /\ linkRow.currentDownloads <= linkRow.maxDownloads

\* C34 witness: a link with an expiry ahead and the largest cap has admitted
\* its N requests, was deactivated by the last of them, and the request after
\* them has been rejected
C34_Witness ==
    /\ linkRow # NoRow /\ linkRow.maxDownloads = MaxCap
    /\ linkRow.expiresAt # NULL /\ now < linkRow.expiresAt
    /\ admitted = MaxCap /\ linkRow.currentDownloads = MaxCap /\ linkRow.isActive = 0
    /\ \E s \in InFlight : s.kind = "download" /\ s.pc = "sent" /\ s.status = 400

\* the increment writes that admitted requests have issued and the store has
\* not yet applied
Pending ==
    LET waiting == { s \in InFlight : s.bk \in {"inc", "incThenDeact"} }
    IN  BagCardinality([s \in waiting |-> CopiesIn(s, req)])

\* C35 as stated: once every issued increment has been written,
\* currentDownloads is the number of requests admitted since the creation or
\* the last reset
C35_Original ==
    (linkRow # NoRow /\ Pending = 0) => linkRow.currentDownloads = admitted

\* the counter and the increments still to be written add up to the number of
\* requests admitted since the creation or the last reset
Balance ==
    (IF linkRow = NoRow THEN 0 ELSE linkRow.currentDownloads) + Pending = admitted

\* the step is a reset writing the row
ResetWritten ==
    \E s \in InFlight : s.kind = "reset" /\ s.pc = "resetUpdate" /\ Stepped(s)

\* C35 amended: no increment is lost under any interleaving of download
\* requests: every admitted request issues one increment, which the store
\* applies as one step, so that currentDownloads plus the increments still
\* pending equals the number of requests admitted since the creation or the
\* last reset - and currentDownloads alone once they are written - from the
\* creation, and from every reset written while no increment is pending, up
\* to the next reset written while an admitted request's increment is
\* pending; that increment is applied after the reset and counts a request
\* admitted before it
C35_NoLostIncrement ==
    [][/\ (Balance /\ ~(ResetWritten /\ Pending > 0)) => Balance'
       /\ (ResetWritten /\ Pending = 0 /\ linkRow # NoRow) => Balance'
       /\ (Pending' < Pending /\ linkRow # NoRow)
             => /\ linkRow'.currentDownloads = linkRow.currentDownloads + 1
                /\ Pending' = Pending - 1]_vars

\* C35 witness: two requests were admitted together, the second while the
\* first one's increment was pending; both increments are written and the
\* counter stands at 2
C35_Witness ==
    /\ linkRow # NoRow /\ overlap /\ Pending = 0
    /\ admitted = 2 /\ linkRow.currentDownloads = 2

\* C36 as stated: only a first upstream response with a 2xx status is
\* classified and served; one with another status, a 404 or a 3xx, is never
\* sent on to the client as a 200 download
C36_Original ==
    \A s \in InFlight :
        (s.kind = "download" /\ s.up1 # 0 /\ s.up1 \notin 200..299)
            => ~(s.pc = "sent" /\ s.status = 200 /\ headersSent(s))

\* C37 as stated: a link is created with isActive true, currentDownloads 0
\* and expiresAt = createdAt + expirationHours whenever the request gives an
\* expirationHours, and without expiresAt otherwise
C37_Original ==
    [][\A u \in UrlInputs \ {""}, m \in CapInputs, h \in HourInputs :
          CreateStart(u, m, h) =>
             \A t \in InFlight' : Became(t) =>
                /\ t.link.isActive /\ t.link.currentDownloads = 0
                /\ t.link.createdAt = now
                /\ t.link.expiresAt = IF h # NULL THEN now + h ELSE NULL]_vars

\* C37 amended: the link that POST /api/links hands to the store, and the row
\* the store inserts for it, has isActive true (1 in the row),
\* currentDownloads 0, createdAt the time of the request, and expiresAt =
\* createdAt + expirationHours when the request gives an expirationHours
\* other than 0; expiresAt and expirationHours are absent when the request
\* gives none, null or 0
C37_CreatedLink ==
    [][/\ \A u \in UrlInputs \ {""}, m \in CapInputs, h \in HourInputs :
             CreateStart(u, m, h) =>
                \A t \in InFlight' : Became(t) =>
                   /\ t.link.isActive /\ t.link.currentDownloads = 0
                   /\ t.link.createdAt = now
                   /\ t.link.expiresAt = IF h \notin {NULL, 0} THEN now + h ELSE NULL
                   /\ t.link.expirationHours = IF h \notin {NULL, 0} THEN h ELSE NULL
       /\ (linkRow = NoRow /\ linkRow' # NoRow) =>
             \E s \in InFlight :
                /\ s.kind = "create" /\ s.pc = "createLink" /\ Stepped(s)
                /\ linkRow'.isActive = 1 /\ linkRow'.currentDownloads = 0
                /\ linkRow'.createdAt = s.link.createdAt
                /\ linkRow'.expiresAt = s.link.expiresAt
                /\ linkRow'.expirationHours = s.link.expirationHours]_vars

\* C37 witness: the create request has just been answered, and its link
\* stands in the store with its expiry expirationHours after its creation
C37_Witness ==
    /\ \E s \in InFlight : s.kind = "create" /\ s.pc = "sent" /\ s.status = 200
    /\ linkRow # NoRow /\ linkRow.expirationHours = MaxHours
    /\ linkRow.expiresAt = linkRow.createdAt + MaxHours
    /\ linkRow.isActive = 1 /\ linkRow.currentDownloads = 0

\* C38: when the metadata of the first marker block does not parse, the
\* extractor still returns a result: it has no filename and keeps the
\* downloadlink found in that block; with a link found at the provider's URL
\* the second fetch is issued under the filename derived from originalUrl,
\* and no later step of the second fetch changes that filename
C38_MetadataFailureNotFatal ==
    [][/\ \A s \in InFlight :
             (s.kind = "download" /\ s.pc = "buffer" /\ Stepped(s)) =>
                \A page \in Pages :
                   Fetch1End(s, page) =>
                      LET markers == { i \in 1..Len(page) : page[i].publinkData }
                          first   == CHOOSE i \in markers : \A j \in markers : i <= j
                          info    == extractPcloudInfo(page, s.link.originalUrl)
                      IN  (/\ IsPcloud(s.link.originalUrl) /\ markers # {}
                           /\ page[first].metadata = "garbled") =>
                             /\ info = [ downloadLink |-> page[first].downloadlink,
                                         filename     |-> FALSE ]
                             /\ page[first].downloadlink =>
                                   \E t \in InFlight' :
                                      /\ Became(t) /\ t.pc = "fetch2" /\ t.fetches = 2
                                      /\ t.contentDisposition =
                                            Attachment(UrlFilename(s.link.originalUrl))
       /\ \A s \in InFlight, t \in InFlight' :
             (s.kind = "download" /\ s.pc = "fetch2" /\ Stepped(s) /\ Became(t))
                => t.contentDisposition = s.contentDisposition]_vars

\* C38 witness: the file behind an extracted link is being streamed under
\* the filename derived from the provider's URL
C38_Witness ==
    \E s \in InFlight :
       /\ s.kind = "download" /\ s.pc = "sent" /\ s.piped = "fileRes" /\ s.up2 = 200
       /\ s.link.originalUrl = "https://u.pcloud.link/p"
       /\ s.contentDisposition = Attachment(UrlFilename("https://u.pcloud.link/p"))

====
